---- MODULE Spec2Model ----
(***************************************************************************)
(* Model of telegram-claude-dispatcher: the Telegram watermark client      *)
(* (utils/telegram_utils.py), the PreHook gate (core/pre_hook.py), the     *)
(* session manager and message processor (core/session_manager.py,         *)
(* core/message_processor.py), the PostHook extractor (core/post_hook.py)  *)
(* and the dispatcher cycle that ties them together (dispatcher.py).       *)
(***************************************************************************)
EXTENDS Integers, Sequences, FiniteSets, TLC

(***************************************************************************)
(* Bounds of the model and constants of the program.                       *)
(***************************************************************************)
\* number of updates the Telegram server produces in one run
MaxUpdates == 2
\* last point of the wall clock (seconds)
MaxTime == 119
\* PreHook config 'rate_limit' (requests per window), kept small
rate_limit == 2
\* largest update id handed to a direct acknowledge_messages call
MaxAckId == 3
\* number of agent children that get started in the stepped process_messages
\* (later Popen calls fail)
MaxRuns == 2
\* longest reply wrapped between the markers, in tokens
MaxReply == 3
\* longest output handed to the heuristic extraction, in tokens
MaxOutput == 5
\* longest reply handed to PostHook.process, in tokens
MaxText == 275
\* largest config 'max_length' of the direct PostHook.process calls
MaxLength == 270
\* largest max_age_hours handed to cleanup_old_sessions
MaxAgeHours == 1
\* timedelta(hours=1) in seconds
HOUR == 3600
\* the sliding window of _check_rate_limit, in seconds
RATE_WINDOW == 60
\* PostHook config 'max_length' as the dispatcher sets it
MAX_LENGTH == 4000
\* _truncate_content keeps max_length - 50 characters for the notice
TRUNCATE_RESERVE == 50

None == "None"

\* the points of the wall clock the model observes: around the window edge
TimePoints == {0, RATE_WINDOW - 1, RATE_WINDOW, MaxTime}

\* Telegram users: the 'from' object of a message carries id and username
Users == {[id |-> "id1", username |-> "alice", chat |-> 41],
          [id |-> "id2", username |-> "bob", chat |-> 42]}
UserIds == {u.id : u \in Users}
\* the keys of rate_limit_window: a user id, or None when the message has none
RateKeys == UserIds \cup {None}
\* A message text is a sequence of characters: "/" the slash, " " a blank,
\* "h", "s", "p" the command words help, status, ping in lower case, "H", "S",
\* "P" the same words in upper case, "x" any other word.
Hi == <<"x">>
Ping == <<"/", "p">>
Texts == {Hi, Ping}
\* the dispatcher processes that may be started on one LOCK_FILE, by pid
Procs == {"p1", "p2"}
\* the pid of a process that ended before any of them started
DeadPid == "p0"
\* the ids "session_" + uuid4().hex[:8] + "_" + timestamp that create_session
\* can draw within one second of the clock (a small sample of the 16^8)
SessionIds == {"s1", "s2"}

VARIABLES
    \* ---- Telegram server (getUpdates / sendMessage)
    updates,            \* unconfirmed updates held by the server, by update_id
    next_update_id,     \* id of the next update the server will create
    \* ---- TelegramUtils
    last_update_id,     \* self.last_update_id (in memory)
    state_file,         \* telegram_state.json on disk
    \* ---- PreHook
    whitelist, blacklist,
    rate_limit_window,  \* key -> sequence of accepted timestamps
    clock,              \* datetime.now()
    \* ---- SessionManager and the file system under base_sessions_dir
    active_sessions,    \* keys of self.active_sessions
    dirs,               \* session directories that exist
    logfiles,           \* session directories holding a *.log file
    archive_dir,        \* logs_archive exists
    archived,           \* session ids whose logs were copied to logs_archive
    created_at,         \* session id -> 'created_at' of its session info, which is
                        \* also when its directory was made; None without either
    fs_faults,          \* environment: file operations under the sessions root may fail
    \* ---- dispatcher cycle (run / check_and_process_messages)
    pc,                 \* position of the dispatch loop
    batch,              \* messages fetched in this cycle
    pre,                \* result of PreHook.process in this cycle
    session_id,         \* local of process_messages
    result,             \* result dict of process_messages
    post,               \* result of PostHook.process
    sends,              \* send_message calls of this cycle
    acked,              \* argument of this cycle's acknowledge_messages call
    ret,                \* return value of check_and_process_messages
    \* ---- _call_claude_cli: child processes and monitor threads
    runs,               \* number of children started so far; the last is the current one
    children,           \* the started children that are still alive
    monitors,           \* the invocations whose monitor thread is still alive
    is_running,         \* the invocations whose closure variable is_running is True
    stdout,             \* what the current child has written to its stdout pipe
    \* ---- PostHook
    max_length,         \* self.max_length
    add_timestamp,      \* self.add_timestamp
    \* ---- dispatcher.lock and the dispatcher processes that use it
    lock_file,          \* content of LOCK_FILE: a pid, "" after open(..., 'w'), or None
    lock_pc,            \* process -> its position in acquire_lock / run
    has_psutil,         \* whether 'import psutil' succeeds
    \* ---- history (observation only)
    hist,               \* what the last call observed
    prev_acked,         \* highest update_id whose cycle reached its ack step
    prev_handed,        \* highest update_id handed to the agent in an earlier cycle
    own_window          \* username -> that sender's own accepted timestamps

serverVars == <<updates, next_update_id>>
tgVars == <<last_update_id, state_file>>
preVars == <<whitelist, blacklist, rate_limit_window>>
sessVars == <<active_sessions, dirs, logfiles, archive_dir, archived, created_at,
              fs_faults>>
cycleVars == <<pc, batch, pre, session_id, result, post, sends, acked, ret>>
cliVars == <<runs, children, monitors, is_running, stdout>>
postVars == <<max_length, add_timestamp>>
lockVars == <<lock_file, lock_pc, has_psutil>>
histVars == <<hist, prev_acked, prev_handed, own_window>>
vars == <<serverVars, tgVars, preVars, clock, sessVars, cycleVars, cliVars, postVars,
          lockVars, histVars>>

(***************************************************************************)
(* Sequence helpers.                                                       *)
(***************************************************************************)
Max(a, b) == IF a >= b THEN a ELSE b

RECURSIVE SeqMax(_)
\* Python max() of a non-empty list of ints
SeqMax(s) == IF Len(s) = 1 THEN s[1] ELSE Max(s[1], SeqMax(Tail(s)))

(***************************************************************************)
(* Telegram server: getUpdates(offset) returns the updates with            *)
(* update_id >= offset and forgets (confirms) the ones below it.           *)
(***************************************************************************)
\* an update that carries a 'message' object sent by user u
MessageUpdate(n, u, t) ==
    [update_id |-> n,
     message |-> [message_id |-> n,
                  chat |-> [id |-> u.chat],
                  from |-> [id |-> u.id, username |-> u.username],
                  text |-> t]]
\* an update of another kind (edited_message, channel_post, callback_query)
OtherUpdate(n) == [update_id |-> n]

AtOrAfter(offset) == SelectSeq(updates, LAMBDA up : up.update_id >= offset)

\* a user writes to the bot, or some other update is produced
\* (the dispatcher looks at the server only when it polls or fetches, so the
\* arrivals are placed there)
Arrive ==
    /\ pc \in {"poll", "fetch"}
    /\ next_update_id <= MaxUpdates
    /\ \/ \E u \in Users, t \in Texts :
            updates' = Append(updates, MessageUpdate(next_update_id, u, t))
       \/ updates' = Append(updates, OtherUpdate(next_update_id))
    /\ next_update_id' = next_update_id + 1
    /\ UNCHANGED <<tgVars, preVars, clock, sessVars, cycleVars, histVars,
                   cliVars, postVars, lockVars>>

(***************************************************************************)
(* TelegramUtils: the watermark and its state file.                        *)
(***************************************************************************)
NoFile == [kind |-> "absent", value |-> 0]
Corrupt == [kind |-> "corrupt", value |-> 0]
Stored(n) == [kind |-> "ok", value |-> n]

\* _load_last_update_id: the value of the file, 0 when absent or unreadable
LoadLastUpdateId(file) == IF file.kind = "ok" THEN file.value ELSE 0

\* the outcomes of writing the state file: "ok", "open" (mkdir or open raised,
\* the file is untouched), "dump" (opened, hence truncated, then the write raised)
SaveOutcomes == {"ok", "open", "dump"}

\* _save_last_update_id(update_id) under outcome w: the new in-memory value ...
SaveMemory(mem, update_id, w) == IF w = "ok" THEN update_id ELSE mem
\* ... and the new file
SaveFile(file, update_id, w) ==
    CASE w = "ok" -> Stored(update_id)
      [] w = "open" -> file
      [] w = "dump" -> Corrupt

\* acknowledge_messages(update_ids) under write outcome w:
\* [mem, file, ret] = the in-memory watermark, the file and the return value
AcknowledgeMessages(mem, file, update_ids, w) ==
    IF update_ids = <<>> THEN [mem |-> mem, file |-> file, ret |-> TRUE]
    ELSE LET max_update_id == SeqMax(update_ids)
         IN IF max_update_id > mem
            THEN [mem |-> SaveMemory(mem, max_update_id, w),
                  file |-> SaveFile(file, max_update_id, w),
                  ret |-> TRUE]
            ELSE [mem |-> mem, file |-> file, ret |-> TRUE]

\* the message dict get_pending_messages builds from an update
MessageOf(up) ==
    [update_id |-> up.update_id,
     message_id |-> up.message.message_id,
     chat_id |-> up.message.chat.id,
     user |-> [username |-> up.message.from.username],
     text |-> up.message.text]

\* get_pending_messages: the message dicts of the updates that carry a message
PendingMessages(ups) ==
    LET withMsg == SelectSeq(ups, LAMBDA up : "message" \in DOMAIN up)
    IN [i \in 1..Len(withMsg) |-> MessageOf(withMsg[i])]

UpdateIds(msgs) == [i \in 1..Len(msgs) |-> msgs[i].update_id]


(***************************************************************************)
(* PreHook: authorization, rate limit, command interception.               *)
(***************************************************************************)
REPLY_BANNED == "banned"              \* "您已被禁止使用此服务"
REPLY_NOT_ALLOWED == "not_allowed"    \* "抱歉，您没有权限使用此服务"
REPLY_TOO_MANY == "too_many_requests" \* "请求过于频繁，请稍后再试"

\* text.startswith('/')
StartsWithSlash(text) == text # <<>> /\ text[1] = "/"

\* str.lower(), character by character
LowerChar(c) ==
    CASE c = "H" -> "h"
      [] c = "S" -> "s"
      [] c = "P" -> "p"
      [] OTHER -> c
Lower(s) == [i \in 1..Len(s) |-> LowerChar(s[i])]

\* the first word of text.split(): blanks are skipped, the word ends at the
\* next blank
RECURSIVE SkipBlanks(_)
SkipBlanks(s) == IF s # <<>> /\ s[1] = " " THEN SkipBlanks(Tail(s)) ELSE s
RECURSIVE WordOf(_)
WordOf(s) == IF s = <<>> \/ s[1] = " " THEN <<>> ELSE <<s[1]>> \o WordOf(Tail(s))

\* (a slip: the whole text is looked up, not its first word)
FirstToken_NoSplit(text) == Lower(text)

\* text.split()[0].lower()
FirstToken(text) == Lower(WordOf(SkipBlanks(text)))

\* self.command_handlers: command -> the reply its handler returns
CommandHandlers ==
    [c \in {<<"/", "h">>, <<"/", "s">>, <<"/", "p">>} |->
        CASE c = <<"/", "h">> -> "help_text"
          [] c = <<"/", "s">> -> "status_text"
          [] c = <<"/", "p">> -> "pong"]

\* msg.get('user', {}).get('id')
UserIdOf(msg) == IF "id" \in DOMAIN msg.user THEN msg.user.id ELSE None

\* _check_permissions(user_id, username): [ok, msg]
CheckPermissions(wl, bl, user_id, username) ==
    IF user_id \in bl \/ username \in bl
    THEN [ok |-> FALSE, msg |-> REPLY_BANNED]
    ELSE IF wl # {} /\ user_id \notin wl /\ username \notin wl
         THEN [ok |-> FALSE, msg |-> REPLY_NOT_ALLOWED]
         ELSE [ok |-> TRUE, msg |-> None]

\* (a boundary slip: an entry exactly RATE_WINDOW old is kept)
Unexpired_Inclusive(w, now) == SelectSeq(w, LAMBDA ts : now - ts <= RATE_WINDOW)

\* the timestamps of a window still inside the last RATE_WINDOW seconds
Unexpired(w, now) == SelectSeq(w, LAMBDA ts : now - ts < RATE_WINDOW)

\* (a slip: the request that finds the window full is still let through)
CheckRateLimit_OffByOne(win, user_id, now) ==
    LET pruned == Unexpired(win[user_id], now)
    IN IF Len(pruned) > rate_limit
       THEN [ok |-> FALSE, msg |-> REPLY_TOO_MANY,
             win |-> [win EXCEPT ![user_id] = pruned]]
       ELSE [ok |-> TRUE, msg |-> None,
             win |-> [win EXCEPT ![user_id] = Append(pruned, now)]]

\* _check_rate_limit(user_id) at time now: [ok, msg, win], win the new map
CheckRateLimit(win, user_id, now) ==
    LET pruned == Unexpired(win[user_id], now)
    IN IF Len(pruned) >= rate_limit
       THEN [ok |-> FALSE, msg |-> REPLY_TOO_MANY,
             win |-> [win EXCEPT ![user_id] = pruned]]
       ELSE [ok |-> TRUE, msg |-> None,
             win |-> [win EXCEPT ![user_id] = Append(pruned, now)]]

RECURSIVE PreHookLoop(_, _, _, _, _, _)
\* the loop of PreHook.process from message i on: [cont, reply, win, seen],
\* seen = the verdict on every message the loop looked at
PreHookLoop(msgs, i, wl, bl, win, now) ==
    IF i > Len(msgs)
    THEN [cont |-> TRUE, reply |-> None, win |-> win, seen |-> <<>>]
    ELSE LET msg == msgs[i]
             user_id == UserIdOf(msg)
             username == msg.user.username
             perm == CheckPermissions(wl, bl, user_id, username)
             rate == CheckRateLimit(win, user_id, now)
             v(verdict) == [update_id |-> msg.update_id, username |-> username,
                            verdict |-> verdict]
         IN IF ~perm.ok
            THEN [cont |-> FALSE, reply |-> perm.msg, win |-> win,
                  seen |-> <<v("auth")>>]
            ELSE IF ~rate.ok
            THEN [cont |-> FALSE, reply |-> rate.msg, win |-> rate.win,
                  seen |-> <<v("rate")>>]
            ELSE IF StartsWithSlash(msg.text)
                    /\ FirstToken(msg.text) \in DOMAIN CommandHandlers
            THEN [cont |-> FALSE, reply |-> CommandHandlers[FirstToken(msg.text)],
                  win |-> rate.win, seen |-> <<v("command")>>]
            ELSE LET rest == PreHookLoop(msgs, i + 1, wl, bl, rate.win, now)
                 IN [rest EXCEPT !.seen = <<v("pass")>> \o rest.seen]

\* PreHook.process(messages)
PreHookProcess(msgs, wl, bl, win, now) == PreHookLoop(msgs, 1, wl, bl, win, now)


(***************************************************************************)
(* SessionManager: sessions and their directories.                         *)
(***************************************************************************)
\* the session manager's dict and the file system it works on, as one value
SessState == [active |-> active_sessions, dirs |-> dirs, logfiles |-> logfiles,
              archive_dir |-> archive_dir, archived |-> archived,
              created |-> created_at]

\* create_session under a drawn id; ok = FALSE: session_dir.mkdir raised
CreateSession(st, sid, ok) ==
    IF ok
    THEN [st EXCEPT !.dirs = @ \cup {sid}, !.active = @ \cup {sid},
                    !.created[sid] = clock]
    ELSE st

\* what can go wrong inside cleanup_session: nothing, logs_backup_dir.mkdir,
\* shutil.copy2, shutil.rmtree
CleanupFaults == {"none", "mkdir", "copy", "rmtree"}

\* (a slip: an unknown session is reported as cleaned)
CleanupSession_NoGuard(st, sid, keep_logs, f) ==
    LET archiving == keep_logs /\ sid \in st.dirs /\ sid \in st.logfiles
        copied == IF archiving
                  THEN [st EXCEPT !.archive_dir = TRUE, !.archived = @ \cup {sid}]
                  ELSE st
    IN [st |-> [copied EXCEPT !.dirs = @ \ {sid}, !.logfiles = @ \ {sid},
                              !.active = @ \ {sid}, !.created[sid] = None],
        ret |-> TRUE, rmtree |-> sid \in st.dirs]

\* cleanup_session(session_id, keep_logs) under fault f:
\* [st, ret, rmtree] = new state, return value, whether rmtree was called
CleanupSession(st, sid, keep_logs, f) ==
    IF sid \notin st.active
    THEN [st |-> st, ret |-> FALSE, rmtree |-> FALSE]
    ELSE LET archiving == keep_logs /\ sid \in st.dirs /\ sid \in st.logfiles
             copied == IF archiving
                       THEN [st EXCEPT !.archive_dir = TRUE,
                                       !.archived = @ \cup {sid}]
                       ELSE st
         IN IF archiving /\ f = "mkdir" /\ ~st.archive_dir
            THEN [st |-> st, ret |-> FALSE, rmtree |-> FALSE]
            ELSE IF archiving /\ f = "copy"
            THEN [st |-> [st EXCEPT !.archive_dir = TRUE],
                  ret |-> FALSE, rmtree |-> FALSE]
            ELSE IF sid \in st.dirs /\ f = "rmtree"
            THEN [st |-> copied, ret |-> FALSE, rmtree |-> TRUE]
            ELSE [st |-> [copied EXCEPT !.dirs = @ \ {sid},
                                        !.logfiles = @ \ {sid},
                                        !.active = @ \ {sid},
                                        !.created[sid] = None],
                  ret |-> TRUE, rmtree |-> sid \in st.dirs]

(***************************************************************************)
(* MessageProcessor._call_claude_cli: the outcomes of one agent run.       *)
(* Text is a sequence of tokens: "=" is the run "===", "S" the word         *)
(* REPLY_START and "E" the word REPLY_END, so that the literals            *)
(* ===REPLY_START=== and ===REPLY_END=== are three tokens each and share   *)
(* their "===" borders as in the program; "T" is the summary heading       *)
(* "## 处理总结", "K" the skipped prefix "完成！", "." the sentence end "。",  *)
(* "x" any other character, " " a blank and "\n" a line break.             *)
(***************************************************************************)
\* the literals of the pattern in _extract_reply_content
REPLY_START == <<"=", "S", "=">>
REPLY_END == <<"=", "E", "=">>

AgentOutputs ==
    { <<"x", "\n">> \o REPLY_START \o <<"\n", "x", "\n">> \o REPLY_END
          \o <<"\n", "x">>,                                \* noise, marked reply
      REPLY_START \o <<" ">> \o REPLY_END,                  \* empty marker block
      <<>> }                                                \* nothing

NoResult == [success |-> FALSE, output |-> <<>>, error |-> "none", returncode |-> 0]

\* the result dicts _call_claude_cli can return for an agent writing `out`
CliResult(how, out) ==
    CASE how = "exit0" ->
           [success |-> TRUE, output |-> out, error |-> "", returncode |-> 0]
      [] how = "exit1" ->
           [success |-> FALSE, output |-> out, error |-> "", returncode |-> 1]
      [] how = "timeout" ->
           [success |-> FALSE, output |-> out, error |-> "timeout", returncode |-> 0 - 1]
      [] how = "spawn" ->
           [success |-> FALSE, output |-> <<>>, error |-> "spawn", returncode |-> 0 - 1]
CliOutcomes == {"exit0", "exit1", "timeout", "spawn"}

\* the except branch of process_messages (create_session raised)
FailedResult == [success |-> FALSE, output |-> <<>>, error |-> "exception", returncode |-> 0 - 1]


(***************************************************************************)
(* PostHook: reply extraction and cleaning.                                *)
(***************************************************************************)
IsSpace(c) == c \in {" ", "\n"}

RECURSIVE LStrip(_)
LStrip(s) == IF s # <<>> /\ IsSpace(s[1]) THEN LStrip(Tail(s)) ELSE s
RECURSIVE RStrip(_)
RStrip(s) ==
    IF s # <<>> /\ IsSpace(s[Len(s)]) THEN RStrip(SubSeq(s, 1, Len(s) - 1)) ELSE s
\* str.strip()
Strip(s) == LStrip(RStrip(s))

\* the least element of a set of indices, 0 for the empty set
Least(hits) == IF hits = {} THEN 0 ELSE CHOOSE i \in hits : \A j \in hits : i <= j

\* the first index >= from at which token c stands in s, 0 when there is none
IndexFrom(s, c, from) == Least({i \in from..Len(s) : s[i] = c})

\* str.split('\n'): the lines of s
RECURSIVE SplitLines(_)
SplitLines(s) ==
    LET nl == IndexFrom(s, "\n", 1)
    IN IF nl = 0 THEN <<s>>
       ELSE <<SubSeq(s, 1, nl - 1)>> \o SplitLines(SubSeq(s, nl + 1, Len(s)))

\* '\n'.join(lines)
RECURSIVE JoinLines(_)
JoinLines(lines) ==
    IF lines = <<>> THEN <<>>
    ELSE IF Len(lines) = 1 THEN lines[1]
    ELSE lines[1] \o <<"\n">> \o JoinLines(Tail(lines))

\* an optional text: None, or a text
Absent == [some |-> FALSE, text |-> <<>>]
Present(t) == [some |-> TRUE, text |-> t]
\* Python truthiness of an optional text: neither None nor ''
Truthy(o) == o.some /\ o.text # <<>>

\* the summary opening test: '## 处理总结' in line
OpensSummary(line) == \E i \in 1..Len(line) : line[i] = "T"
\* any(re.match(pattern, line) ...): the line starts with a skipped prefix
MatchesSkip(line) == line # <<>> /\ line[1] \in {"K", "T"}

\* (a slip: the summary heading is dropped but the lines after it are kept)
RECURSIVE SmartLines_HeadingOnly(_, _)
SmartLines_HeadingOnly(lines, in_summary) ==
    IF lines = <<>> THEN <<>>
    ELSE LET line_stripped == Strip(lines[1])
         IN IF line_stripped = <<>> \/ OpensSummary(line_stripped)
               \/ MatchesSkip(line_stripped)
            THEN SmartLines_HeadingOnly(Tail(lines), in_summary)
            ELSE <<line_stripped>> \o SmartLines_HeadingOnly(Tail(lines), in_summary)

\* (a slip: the skip patterns are tried on the line as written, not stripped)
RECURSIVE SmartLines_SkipOnRaw(_, _)
SmartLines_SkipOnRaw(lines, in_summary) ==
    IF lines = <<>> THEN <<>>
    ELSE LET line_stripped == Strip(lines[1])
         IN IF line_stripped = <<>> THEN SmartLines_SkipOnRaw(Tail(lines), in_summary)
            ELSE IF OpensSummary(line_stripped) THEN SmartLines_SkipOnRaw(Tail(lines), TRUE)
            ELSE IF in_summary THEN SmartLines_SkipOnRaw(Tail(lines), in_summary)
            ELSE IF MatchesSkip(lines[1]) THEN SmartLines_SkipOnRaw(Tail(lines), in_summary)
            ELSE <<line_stripped>> \o SmartLines_SkipOnRaw(Tail(lines), in_summary)

\* the loop of _smart_extract over the lines: the kept, stripped lines
RECURSIVE SmartLines(_, _)
SmartLines(lines, in_summary) ==
    IF lines = <<>> THEN <<>>
    ELSE LET line_stripped == Strip(lines[1])
         IN IF line_stripped = <<>> THEN SmartLines(Tail(lines), in_summary)
            ELSE IF OpensSummary(line_stripped) THEN SmartLines(Tail(lines), TRUE)
            ELSE IF in_summary THEN SmartLines(Tail(lines), in_summary)
            ELSE IF MatchesSkip(line_stripped) THEN SmartLines(Tail(lines), in_summary)
            ELSE <<line_stripped>> \o SmartLines(Tail(lines), in_summary)

\* _smart_extract(output)
SmartExtract(output) ==
    LET content_lines == SmartLines(SplitLines(output), FALSE)
    IN IF content_lines # <<>> THEN Present(JoinLines(content_lines)) ELSE Absent

\* the first index >= from at which the literal pat stands in s, 0 when none
FindFrom(s, pat, from) ==
    Least({i \in from..(Len(s) - Len(pat) + 1) : SubSeq(s, i, i + Len(pat) - 1) = pat})

\* (a slip: the group runs to the last end literal, a greedy (.*))
RECURSIVE LastEnd(_, _)
LastEnd(output, from) ==
    LET e == FindFrom(output, REPLY_END, from)
    IN IF e = 0 THEN 0
       ELSE LET later == LastEnd(output, e + 1) IN IF later = 0 THEN e ELSE later
ExtractReplyContent_Greedy(output) ==
    LET start == FindFrom(output, REPLY_START, 1)
        end == IF start = 0 THEN 0 ELSE LastEnd(output, start + Len(REPLY_START))
    IN IF start # 0 /\ end # 0
       THEN Present(Strip(SubSeq(output, start + Len(REPLY_START), end - 1)))
       ELSE SmartExtract(output)

\* _extract_reply_content(output): re.search of START(.*?)END with DOTALL, the
\* leftmost start literal and the first end literal that begins after it; the
\* stripped group, else the heuristic
ExtractReplyContent(output) ==
    LET start == FindFrom(output, REPLY_START, 1)
        end == IF start = 0 THEN 0
               ELSE FindFrom(output, REPLY_END, start + Len(REPLY_START))
    IN IF start # 0 /\ end # 0
       THEN Present(Strip(SubSeq(output, start + Len(REPLY_START), end - 1)))
       ELSE SmartExtract(output)

\* the loop of _clean_content: runs of empty lines collapse to one
RECURSIVE CollapseBlank(_, _)
CollapseBlank(lines, prev_empty) ==
    IF lines = <<>> THEN <<>>
    ELSE IF lines[1] = <<>>
         THEN (IF prev_empty THEN <<>> ELSE <<lines[1]>>)
              \o CollapseBlank(Tail(lines), TRUE)
         ELSE <<lines[1]>> \o CollapseBlank(Tail(lines), FALSE)

\* line.rstrip() of every line
RStripAll(lines) == [i \in 1..Len(lines) |-> RStrip(lines[i])]

\* _clean_content(content)
CleanContent(content) ==
    Strip(JoinLines(CollapseBlank(RStripAll(SplitLines(content)), FALSE)))

\* _format_content(content): returns its argument
FormatContent(content) == content

\* content[:k] for any integer k
PySliceTo(s, k) ==
    IF k >= 0 THEN SubSeq(s, 1, (IF k <= Len(s) THEN k ELSE Len(s)))
    ELSE SubSeq(s, 1, (IF Len(s) + k >= 0 THEN Len(s) + k ELSE 0))

\* s.rfind(c): the last index (counted from 0) of token c in s, -1 when none
RFind(s, c) ==
    LET hits == {i \in 1..Len(s) : s[i] = c}
    IN IF hits = {} THEN 0 - 1
       ELSE (CHOOSE i \in hits : \A j \in hits : j <= i) - 1

\* the 15 characters "\n\n⚠️ (内容过长，已截断)"
TruncationNotice ==
    <<"\n", "\n", "!", "!", " ", "(", "n", "n", "n", "n", "n", "n", "n", "n", ")">>
\* "\n\n⏰ " and the 19 characters of strftime('%Y-%m-%d %H:%M:%S')
TimestampSuffix ==
    <<"\n", "\n", "@", " ", "d", "d", "d", "d", "-", "d", "d", "-", "d", "d", " ",
      "d", "d", ":", "d", "d", ":", "d", "d">>

\* _truncate_content(content); cut_point > self.max_length * 0.8 in tenths
TruncateContent(content) ==
    IF Len(content) <= max_length THEN content
    ELSE LET truncated == PySliceTo(content, max_length - TRUNCATE_RESERVE)
             last_period == RFind(truncated, ".")
             last_newline == RFind(truncated, "\n")
             cut_point == Max(last_period, last_newline)
         IN (IF cut_point * 10 > max_length * 8
             THEN SubSeq(truncated, 1, cut_point + 1) ELSE truncated)
            \o TruncationNotice

NoPost == [success |-> FALSE, reply |-> Absent]

\* (a slip: a reply is cut as soon as it does not leave room for the notice)
Finalize_CutEarly(reply_content) ==
    LET cleaned == FormatContent(CleanContent(reply_content))
        cut == IF Len(cleaned) > max_length - TRUNCATE_RESERVE
               THEN PySliceTo(cleaned, max_length - TRUNCATE_RESERVE) \o TruncationNotice
               ELSE cleaned
    IN IF add_timestamp THEN cut \o TimestampSuffix ELSE cut

\* steps 2 to 5 of PostHook.process on an extracted reply
Finalize(reply_content) ==
    LET cleaned == FormatContent(CleanContent(reply_content))
        cut == IF Len(cleaned) > max_length THEN TruncateContent(cleaned) ELSE cleaned
    IN IF add_timestamp THEN cut \o TimestampSuffix ELSE cut

\* (a slip: the test 'if not reply_content' is missing)
PostHookProcess_NoGuard(output) ==
    LET reply_content == ExtractReplyContent(output)
    IN [success |-> TRUE, reply |-> Present(Finalize(reply_content.text))]

\* PostHook.process(output, messages): [success, reply]
PostHookProcess(output) ==
    LET reply_content == ExtractReplyContent(output)
    IN IF ~Truthy(reply_content)
       THEN [success |-> FALSE, reply |-> Absent]
       ELSE [success |-> TRUE, reply |-> Present(Finalize(reply_content.text))]


(***************************************************************************)
(* The dispatcher: run() and check_and_process_messages().                 *)
(***************************************************************************)
NoPre == [cont |-> TRUE, reply |-> None, seen |-> <<>>]
NoAck == [called |-> FALSE, ids |-> <<>>]
Usernames == {u.username : u \in Users}

\* observation: every sender's own accepted requests of the last RATE_WINDOW
\* seconds, after PreHook.process gave the verdicts `seen` at time now
RECURSIVE OwnAfter(_, _, _)
OwnAfter(seen, own, now) ==
    IF seen = <<>> THEN own
    ELSE LET who == seen[1].username
             pruned == Unexpired(own[who], now)
             next == IF seen[1].verdict \in {"pass", "command"}
                     THEN Append(pruned, now) ELSE pruned
         IN OwnAfter(Tail(seen), [own EXCEPT ![who] = next], now)

\* run() of process p1 has passed acquire_lock and is in its loop; no other
\* dispatcher has been started
LockHeld ==
    /\ lock_file = "p1"
    /\ lock_pc = [p \in Procs |-> IF p = "p1" THEN "running" ELSE "off"]
    /\ has_psutil = TRUE

\* the state after construction: TelegramUtils.__init__ loads the watermark,
\* PreHook's window and SessionManager start empty, run() is at position pc0
\* (the allow-list and the deny-list come from the PreHook config)
Boot(pc0, file, faults) ==
    /\ updates = <<>>
    /\ next_update_id = 1
    /\ state_file = file
    /\ last_update_id = LoadLastUpdateId(file)
    /\ rate_limit_window = [k \in RateKeys |-> <<>>]
    /\ clock = 0
    /\ active_sessions = {}
    /\ dirs = {}
    /\ logfiles = {}
    /\ archive_dir = FALSE
    /\ archived = {}
    /\ created_at = [s \in SessionIds |-> None]
    /\ fs_faults = faults
    /\ pc = pc0
    /\ batch = <<>>
    /\ pre = NoPre
    /\ session_id = None
    /\ result = NoResult
    /\ post = NoPost
    /\ sends = <<>>
    /\ acked = NoAck
    /\ ret = TRUE
    /\ runs = 0
    /\ children = {}
    /\ monitors = {}
    /\ is_running = {}
    /\ stdout = <<>>
    /\ prev_acked = 0
    /\ prev_handed = 0
    /\ own_window = [n \in Usernames |-> <<>>]

\* the dispatcher as started by main(): no state file yet; the deny-list names
\* one of the two users, so one sender is refused and the other admitted
Init ==
    /\ Boot("poll", NoFile, FALSE)
    /\ max_length = MAX_LENGTH
    /\ add_timestamp = FALSE
    /\ LockHeld
    /\ whitelist = {}
    /\ blacklist = {"bob"}
    /\ hist = [op |-> "init"]

\* check_new_messages(): getUpdates(offset, limit=1); net = FALSE: the request
\* failed.  No message: the cycle returns True.
CheckNewMessages(net) ==
    /\ pc = "poll"
    /\ LET offset == last_update_id + 1
           has_messages == net /\ AtOrAfter(offset) # <<>>
       IN /\ updates' = IF net THEN AtOrAfter(offset) ELSE updates
          /\ IF has_messages
             THEN /\ pc' = "fetch"
                  /\ ret' = ret
             ELSE /\ pc' = "sleep"
                  /\ ret' = TRUE
    /\ UNCHANGED <<next_update_id, tgVars, preVars, clock, sessVars, batch, pre,
                   session_id, result, post, sends, acked, histVars,
                   cliVars, postVars, lockVars>>

\* (a slip: the call leaves mark_as_read at its default True, so the fetch
\* itself saves the largest update_id it saw)
GetPendingMessages_MarkAsRead(net) ==
    /\ pc = "fetch"
    /\ LET offset == last_update_id + 1
           fetched == IF net THEN AtOrAfter(offset) ELSE <<>>
           messages == PendingMessages(fetched)
           max_update_id == Max(last_update_id,
                                SeqMax([i \in 1..Len(fetched) |-> fetched[i].update_id]))
       IN /\ updates' = IF net THEN AtOrAfter(offset) ELSE updates
          /\ batch' = messages
          /\ last_update_id' = IF fetched # <<>> THEN max_update_id ELSE last_update_id
          /\ state_file' = IF fetched # <<>> /\ max_update_id > last_update_id
                           THEN Stored(max_update_id) ELSE state_file
          /\ IF messages = <<>>
             THEN /\ pc' = "sleep"
                  /\ ret' = FALSE
             ELSE /\ pc' = "prehook"
                  /\ ret' = ret
    /\ UNCHANGED <<next_update_id, preVars, clock, sessVars, pre,
                   session_id, result, post, sends, acked, histVars,
                   cliVars, postVars, lockVars>>

\* get_pending_messages(mark_as_read=False); no message: the cycle returns False
GetPendingMessages(net) ==
    /\ pc = "fetch"
    /\ LET offset == last_update_id + 1
           messages == IF net THEN PendingMessages(AtOrAfter(offset)) ELSE <<>>
       IN /\ updates' = IF net THEN AtOrAfter(offset) ELSE updates
          /\ batch' = messages
          /\ IF messages = <<>>
             THEN /\ pc' = "sleep"
                  /\ ret' = FALSE
             ELSE /\ pc' = "prehook"
                  /\ ret' = ret
    /\ UNCHANGED <<next_update_id, tgVars, preVars, clock, sessVars, pre,
                   session_id, result, post, sends, acked, histVars,
                   cliVars, postVars, lockVars>>

\* should_continue, quick_reply, processed_messages = self.pre_hook.process(messages)
RunPreHook ==
    /\ pc = "prehook"
    /\ LET r == PreHookProcess(batch, whitelist, blacklist, rate_limit_window, clock)
       IN /\ pre' = [cont |-> r.cont, reply |-> r.reply, seen |-> r.seen]
          /\ rate_limit_window' = r.win
          /\ pc' = IF r.cont THEN "create" ELSE "reply"
    /\ UNCHANGED <<serverVars, tgVars, whitelist, blacklist, clock, sessVars, batch,
                   session_id, result, post, sends, acked, ret, histVars,
                   cliVars, postVars, lockVars>>

\* the send_message calls of one loop over the batch, oks[i] the i-th outcome
SendAll(msgs, text, oks) ==
    [i \in 1..Len(msgs) |-> [chat_id |-> msgs[i].chat_id, text |-> text, ok |-> oks[i]]]

\* not should_continue: the quick reply goes to every message's chat
SendQuickReply ==
    /\ pc = "reply"
    /\ \E oks \in [1..Len(batch) -> BOOLEAN] :
          sends' = IF pre.reply # None THEN SendAll(batch, pre.reply, oks) ELSE <<>>
    /\ pc' = "ack"
    /\ UNCHANGED <<serverVars, tgVars, preVars, clock, sessVars, batch, pre,
                   session_id, result, post, acked, ret, histVars,
                   cliVars, postVars, lockVars>>


\* process_messages, first part: create_session under a drawn id.  If mkdir
\* raises, the except branch builds the failed result and there is no session.
ProcessCreate ==
    /\ pc = "create"
    /\ \E sid \in SessionIds, ok \in BOOLEAN :
          LET st == CreateSession(SessState, sid, ok)
          IN /\ active_sessions' = st.active
             /\ dirs' = st.dirs
             /\ created_at' = st.created
             /\ session_id' = IF ok THEN sid ELSE None
             /\ result' = IF ok THEN result ELSE FailedResult
             /\ pc' = IF ok THEN "run" ELSE "post"
    /\ UNCHANGED <<serverVars, tgVars, preVars, clock, logfiles, archive_dir,
                   archived, fs_faults, batch, pre, post, sends, acked, ret, histVars,
                   cliVars, postVars, lockVars>>

\* (a slip: a spawn error is not caught and ends the loop of run())
ProcessCall_Propagate ==
    /\ pc = "run"
    /\ \E how \in CliOutcomes, out \in AgentOutputs, wrote_log \in BOOLEAN :
          /\ result' = IF how = "spawn" THEN result ELSE CliResult(how, out)
          /\ logfiles' = IF how # "spawn" /\ wrote_log /\ session_id \in dirs
                         THEN logfiles \cup {session_id} ELSE logfiles
          /\ pc' = IF how = "spawn" THEN "stopped" ELSE "cleanup"
    /\ UNCHANGED <<serverVars, tgVars, preVars, clock, active_sessions, dirs,
                   archive_dir, archived, created_at, fs_faults, batch, pre, session_id, post,
                   sends, acked, ret, histVars, cliVars, postVars, lockVars>>

\* process_messages, second part: _call_claude_cli.  The agent may leave a
\* *.log file in its session directory (CLAUDE_SESSION_DIR).
ProcessCall ==
    /\ pc = "run"
    /\ \E how \in CliOutcomes, out \in AgentOutputs, wrote_log \in BOOLEAN :
          /\ result' = CliResult(how, out)
          /\ logfiles' = IF how # "spawn" /\ wrote_log /\ session_id \in dirs
                         THEN logfiles \cup {session_id} ELSE logfiles
    /\ pc' = "cleanup"
    /\ UNCHANGED <<serverVars, tgVars, preVars, clock, active_sessions, dirs,
                   archive_dir, archived, created_at, fs_faults, batch, pre, session_id, post,
                   sends, acked, ret, histVars,
                   cliVars, postVars, lockVars>>

\* process_messages, finally: cleanup_session(session_id, keep_logs=True)
ProcessCleanup ==
    /\ pc = "cleanup"
    /\ \E f \in (IF fs_faults THEN CleanupFaults ELSE {"none"}) :
          LET c == CleanupSession(SessState, session_id, TRUE, f)
          IN /\ active_sessions' = c.st.active
             /\ dirs' = c.st.dirs
             /\ logfiles' = c.st.logfiles
             /\ archive_dir' = c.st.archive_dir
             /\ archived' = c.st.archived
             /\ created_at' = c.st.created
             /\ hist' = [op |-> "cleanup", sid |-> session_id, keep_logs |-> TRUE,
                         fault |-> f, before |-> SessState, after |-> c.st,
                         ret |-> c.ret, rmtree |-> c.rmtree]
    /\ pc' = "post"
    /\ UNCHANGED <<serverVars, tgVars, preVars, clock, fs_faults, batch, pre,
                   session_id, result, post, sends, acked, ret, prev_acked,
                   prev_handed, own_window,
                   cliVars, postVars, lockVars>>

\* (a slip: after a failed agent run the dispatcher polls again at once, the
\* batch still unacknowledged)
RunPostHook_RetryNow ==
    /\ pc = "post"
    /\ post' = IF result.success THEN PostHookProcess(result.output) ELSE NoPost
    /\ pc' = IF ~result.success THEN "poll"
             ELSE IF post'.success /\ Truthy(post'.reply) THEN "deliver" ELSE "ack"
    /\ UNCHANGED <<serverVars, tgVars, preVars, clock, sessVars, batch, pre,
                   session_id, result, sends, acked, ret, histVars, cliVars,
                   postVars, lockVars>>

\* (a slip: the output of a failed agent run is extracted and delivered too)
RunPostHook_IgnoreSuccess ==
    /\ pc = "post"
    /\ post' = PostHookProcess(result.output)
    /\ pc' = IF post'.success /\ Truthy(post'.reply) THEN "deliver" ELSE "ack"
    /\ UNCHANGED <<serverVars, tgVars, preVars, clock, sessVars, batch, pre,
                   session_id, result, sends, acked, ret, histVars,
                   cliVars, postVars, lockVars>>

\* _process_messages_with_claude after process_messages returned: PostHook
RunPostHook ==
    /\ pc = "post"
    /\ post' = IF result.success THEN PostHookProcess(result.output) ELSE NoPost
    /\ pc' = IF result.success /\ post'.success /\ Truthy(post'.reply)
             THEN "deliver" ELSE "ack"
    /\ UNCHANGED <<serverVars, tgVars, preVars, clock, sessVars, batch, pre,
                   session_id, result, sends, acked, ret, histVars,
                   cliVars, postVars, lockVars>>

\* for msg in messages: send_message(msg['chat_id'], reply_content)
SendReply ==
    /\ pc = "deliver"
    /\ \E oks \in [1..Len(batch) -> BOOLEAN] :
          sends' = SendAll(batch, post.reply.text, oks)
    /\ pc' = "ack"
    /\ UNCHANGED <<serverVars, tgVars, preVars, clock, sessVars, batch, pre,
                   session_id, result, post, acked, ret, histVars,
                   cliVars, postVars, lockVars>>

\* (a slip: the failure branch returns without acknowledging)
Acknowledge_SkipOnFailure(w) ==
    /\ pc = "ack"
    /\ LET update_ids == UpdateIds(batch)
           a == AcknowledgeMessages(last_update_id, state_file, update_ids, w)
           skip == pre.cont /\ ~result.success
       IN /\ last_update_id' = IF skip THEN last_update_id ELSE a.mem
          /\ state_file' = IF skip THEN state_file ELSE a.file
          /\ acked' = IF skip THEN acked ELSE [called |-> TRUE, ids |-> update_ids]
    /\ ret' = IF pre.cont THEN result.success ELSE TRUE
    /\ pc' = "sleep"
    /\ UNCHANGED <<serverVars, preVars, clock, sessVars, batch, pre, session_id,
                   result, post, sends, histVars,
                   cliVars, postVars, lockVars>>

\* acknowledge_messages([msg['update_id'] for msg in messages]) under write
\* outcome w, and the return of check_and_process_messages
Acknowledge(w) ==
    /\ pc = "ack"
    /\ LET update_ids == UpdateIds(batch)
           a == AcknowledgeMessages(last_update_id, state_file, update_ids, w)
       IN /\ last_update_id' = a.mem
          /\ state_file' = a.file
          /\ acked' = [called |-> TRUE, ids |-> update_ids]
    /\ ret' = IF pre.cont THEN result.success ELSE TRUE
    /\ pc' = "sleep"
    /\ UNCHANGED <<serverVars, preVars, clock, sessVars, batch, pre, session_id,
                   result, post, sends, histVars,
                   cliVars, postVars, lockVars>>

\* the agent read the prompt of this cycle's batch
Handed == result.error \in {"", "timeout"}

\* run(): time.sleep(CHECK_INTERVAL), then the next cycle starts
Sleep ==
    /\ pc = "sleep"
    /\ \E t \in TimePoints : t >= clock /\ clock' = t
    /\ prev_acked' = IF acked.called THEN Max(prev_acked, SeqMax(acked.ids))
                     ELSE prev_acked
    /\ prev_handed' = IF Handed THEN Max(prev_handed, SeqMax(UpdateIds(batch)))
                      ELSE prev_handed
    /\ pc' = "poll"
    /\ batch' = <<>>
    /\ pre' = NoPre
    /\ session_id' = None
    /\ result' = NoResult
    /\ post' = NoPost
    /\ sends' = <<>>
    /\ acked' = NoAck
    /\ hist' = [op |-> "init"]
    /\ UNCHANGED <<serverVars, tgVars, preVars, sessVars, ret, own_window,
                   cliVars, postVars, lockVars>>

\* the positions inside 'while True' of run(): one per step of Dispatch
LoopPositions ==
    {"poll", "fetch", "prehook", "reply", "create", "run", "cleanup", "post",
     "deliver", "ack", "sleep"}

\* one step of the dispatch loop
Dispatch ==
    \/ \E net \in BOOLEAN : CheckNewMessages(net)
    \/ \E net \in BOOLEAN : GetPendingMessages(net)
    \/ RunPreHook
    \/ SendQuickReply
    \/ ProcessCreate
    \/ ProcessCall
    \/ ProcessCleanup
    \/ RunPostHook
    \/ SendReply
    \/ \E w \in SaveOutcomes : Acknowledge(w)
    \/ Sleep

Next == Arrive \/ Dispatch

Spec == Init /\ [][Next]_vars

\* The loop of run() never stops taking steps; requests to Telegram and writes
\* of the state file do not fail forever.
LiveSpec ==
    /\ Init /\ [][Next]_vars
    /\ WF_vars(Dispatch)
    /\ SF_vars(CheckNewMessages(TRUE))
    /\ SF_vars(GetPendingMessages(TRUE))
    /\ SF_vars(Acknowledge("ok"))

(***************************************************************************)
(* acknowledge_messages called directly, with any list of ids.             *)
(***************************************************************************)
AckLists ==
    {<<>>} \cup {<<a>> : a \in 1..MaxAckId}
           \cup {<<a, b>> : a \in 1..MaxAckId, b \in 1..MaxAckId}

AckInit ==
    /\ \E file \in {NoFile} \cup {Stored(n) : n \in 0..1} :
          /\ Boot("unit", file, FALSE)
          /\ hist = [op |-> "init", max_supplied |-> LoadLastUpdateId(file)]
    /\ max_length = MAX_LENGTH
    /\ add_timestamp = FALSE
    /\ LockHeld
    /\ whitelist = {}
    /\ blacklist = {}

\* tg.acknowledge_messages(ids)
AckCall ==
    /\ pc = "unit"
    /\ \E ids \in AckLists, w \in SaveOutcomes :
          LET a == AcknowledgeMessages(last_update_id, state_file, ids, w)
          IN /\ last_update_id' = a.mem
             /\ state_file' = a.file
             /\ hist' = [op |-> "ack", ids |-> ids, ret |-> a.ret, write |-> w,
                         before |-> last_update_id,
                         file_before |-> state_file,
                         retry |-> hist.op = "ack" /\ hist.ids = ids,
                         first_ret |-> IF hist.op = "ack" THEN hist.ret ELSE TRUE,
                         first_write |-> IF hist.op = "ack" THEN hist.write ELSE "ok",
                         max_supplied |-> IF ids = <<>> THEN hist.max_supplied
                                          ELSE Max(hist.max_supplied, SeqMax(ids))]
    /\ UNCHANGED <<serverVars, preVars, clock, sessVars, cycleVars, prev_acked,
                   prev_handed, own_window,
                   cliVars, postVars, lockVars>>

AckNext == AckCall
SpecAck == AckInit /\ [][AckNext]_vars

(***************************************************************************)
(* acknowledge_messages called directly by a process that may stop and be  *)
(* started again over the same state file.  A process that is killed       *)
(* between open(state_file, 'w') and the end of json.dump leaves the file  *)
(* as a failed dump does: truncated.                                       *)
(***************************************************************************)
\* the process ends and a new TelegramUtils is constructed:
\* self.last_update_id = self._load_last_update_id()
Reload ==
    /\ pc = "unit"
    /\ last_update_id' = LoadLastUpdateId(state_file)
    /\ hist' = [op |-> "load", before |-> last_update_id,
                max_supplied |-> hist.max_supplied]
    /\ UNCHANGED <<serverVars, state_file, preVars, clock, sessVars, cycleVars,
                   prev_acked, prev_handed, own_window, cliVars, postVars,
                   lockVars>>

ReloadNext == AckCall \/ Reload
SpecReload == AckInit /\ [][ReloadNext]_vars

(***************************************************************************)
(* process_messages and the SessionManager API called directly, on a file  *)
(* system whose operations may fail.                                       *)
(***************************************************************************)
ProcInit ==
    /\ Boot("unit", NoFile, TRUE)
    /\ max_length = MAX_LENGTH
    /\ add_timestamp = FALSE
    /\ LockHeld
    /\ whitelist = {}
    /\ blacklist = {}
    /\ hist = [op |-> "init"]

\* a caller hands a batch of one message to process_messages
ProcStart ==
    /\ pc = "unit"
    /\ \E u \in Users :
          batch' = PendingMessages(<<MessageUpdate(1, u, Hi)>>)
    /\ session_id' = None
    /\ result' = NoResult
    /\ pc' = "create"
    /\ UNCHANGED <<serverVars, tgVars, preVars, clock, sessVars, pre, post,
                   sends, acked, ret, histVars,
                   cliVars, postVars, lockVars>>

\* process_messages has returned to its caller
ProcReturn ==
    /\ pc = "post"
    /\ pc' = "unit"
    /\ UNCHANGED <<serverVars, tgVars, preVars, clock, sessVars, batch, pre,
                   session_id, result, post, sends, acked, ret, histVars,
                   cliVars, postVars, lockVars>>

\* session_manager.create_session() called directly
ApiCreateSession ==
    /\ pc = "unit"
    /\ \E sid \in SessionIds, ok \in BOOLEAN :
          LET st == CreateSession(SessState, sid, ok)
          IN /\ active_sessions' = st.active
             /\ dirs' = st.dirs
             /\ created_at' = st.created
             /\ hist' = [op |-> "create", sid |-> sid, ok |-> ok,
                         before |-> SessState]
    /\ UNCHANGED <<serverVars, tgVars, preVars, clock, logfiles, archive_dir,
                   archived, fs_faults, cycleVars, prev_acked, prev_handed,
                   own_window,
                   cliVars, postVars, lockVars>>

\* something writes a *.log file into an existing session directory
ApiWriteLog ==
    /\ pc = "unit"
    /\ \E sid \in dirs : logfiles' = logfiles \cup {sid}
    /\ hist' = [op |-> "log"]
    /\ UNCHANGED <<serverVars, tgVars, preVars, clock, active_sessions, dirs,
                   archive_dir, archived, created_at, fs_faults, cycleVars, prev_acked,
                   prev_handed, own_window,
                   cliVars, postVars, lockVars>>

\* session_manager.cleanup_session(sid, keep_logs) called directly, for any id
ApiCleanupSession ==
    /\ pc = "unit"
    /\ \E sid \in SessionIds, keep_logs \in BOOLEAN, f \in CleanupFaults :
          LET c == CleanupSession(SessState, sid, keep_logs, f)
          IN /\ active_sessions' = c.st.active
             /\ dirs' = c.st.dirs
             /\ logfiles' = c.st.logfiles
             /\ archive_dir' = c.st.archive_dir
             /\ archived' = c.st.archived
             /\ created_at' = c.st.created
             /\ hist' = [op |-> "cleanup", sid |-> sid, keep_logs |-> keep_logs,
                         fault |-> f, before |-> SessState, after |-> c.st,
                         ret |-> c.ret, rmtree |-> c.rmtree]
    /\ UNCHANGED <<serverVars, tgVars, preVars, clock, fs_faults, cycleVars,
                   prev_acked, prev_handed, own_window,
                   cliVars, postVars, lockVars>>

ProcNext ==
    \/ ProcStart
    \/ ProcessCreate
    \/ ProcessCall
    \/ ProcessCleanup
    \/ ProcReturn
    \/ ApiCreateSession
    \/ ApiWriteLog
    \/ ApiCleanupSession
SpecProc == ProcInit /\ [][ProcNext]_vars

(***************************************************************************)
(* PreHook called directly: _check_rate_limit for any key, and process on  *)
(* batches as get_pending_messages builds them.                            *)
(***************************************************************************)
GateInit ==
    /\ Boot("unit", NoFile, FALSE)
    /\ max_length = MAX_LENGTH
    /\ add_timestamp = FALSE
    /\ LockHeld
    /\ whitelist = {}
    /\ blacklist = {}
    /\ hist = [op |-> "init"]

\* time passes
Tick ==
    /\ pc = "unit"
    /\ \E t \in TimePoints : t > clock /\ clock' = t
    /\ UNCHANGED <<serverVars, tgVars, preVars, sessVars, cycleVars, histVars,
                   cliVars, postVars, lockVars>>

\* pre_hook._check_rate_limit(user_id)
RateCall ==
    /\ pc = "unit"
    /\ \E k \in RateKeys :
          LET r == CheckRateLimit(rate_limit_window, k, clock)
          IN /\ rate_limit_window' = r.win
             /\ hist' = [op |-> "rate", key |-> k, now |-> clock,
                         before |-> rate_limit_window[k], ok |-> r.ok, msg |-> r.msg]
    /\ UNCHANGED <<serverVars, tgVars, whitelist, blacklist, clock, sessVars,
                   cycleVars, prev_acked, prev_handed, own_window,
                   cliVars, postVars, lockVars>>

RateNext == Tick \/ RateCall
SpecRate == GateInit /\ [][RateNext]_vars

\* the batches get_pending_messages can build from one or two message updates
GateBatches ==
    {PendingMessages(<<MessageUpdate(1, u, Hi)>>) : u \in Users}
    \cup {PendingMessages(<<MessageUpdate(1, u, Hi), MessageUpdate(2, v, Hi)>>) :
            u \in Users, v \in Users}

\* pre_hook.process(get_pending_messages())
GateCall ==
    /\ pc = "unit"
    /\ \E msgs \in GateBatches :
          LET r == PreHookProcess(msgs, whitelist, blacklist, rate_limit_window, clock)
          IN /\ rate_limit_window' = r.win
             /\ own_window' = OwnAfter(r.seen, own_window, clock)
             /\ hist' = [op |-> "gate", cont |-> r.cont, reply |-> r.reply,
                         last |-> r.seen[Len(r.seen)]]
    /\ UNCHANGED <<serverVars, tgVars, whitelist, blacklist, clock, sessVars,
                   cycleVars, prev_acked, prev_handed,
                   cliVars, postVars, lockVars>>

GateNext == Tick \/ GateCall
SpecGate == GateInit /\ [][GateNext]_vars

(***************************************************************************)
(* _check_permissions called directly, under any configuration of the two  *)
(* lists (config 'whitelist' and 'blacklist' hold user ids or usernames).  *)
(***************************************************************************)
ListEntries == UserIds \cup Usernames

AuthInit ==
    /\ Boot("unit", NoFile, FALSE)
    /\ max_length = MAX_LENGTH
    /\ add_timestamp = FALSE
    /\ LockHeld
    /\ whitelist \in SUBSET ListEntries
    /\ blacklist \in SUBSET ListEntries
    /\ hist = [op |-> "init"]

\* pre_hook._check_permissions(user_id, username), the id present or None
AuthCall ==
    /\ pc = "unit"
    /\ \E u \in Users : \E user_id \in {u.id, None} :
          LET r == CheckPermissions(whitelist, blacklist, user_id, u.username)
          IN hist' = [op |-> "auth", user_id |-> user_id, username |-> u.username,
                      ok |-> r.ok, msg |-> r.msg]
    /\ UNCHANGED <<serverVars, tgVars, preVars, clock, sessVars, cycleVars,
                   prev_acked, prev_handed, own_window,
                   cliVars, postVars, lockVars>>

AuthNext == AuthCall
SpecAuth == AuthInit /\ [][AuthNext]_vars

(***************************************************************************)
(* One gate decision of check_and_process_messages: PreHook.process on a   *)
(* fetched batch, then the branch on should_continue.  The texts cover the *)
(* shapes the command step distinguishes.                                  *)
(***************************************************************************)
CmdTexts ==
    { <<"/", "p">>,                 \* /ping
      <<"/", "P">>,                 \* /PING
      <<"/", "p", " ", "x">>,       \* /ping now
      <<"/", "h">>,                 \* /help
      <<"/", "S", " ", "x">>,       \* /STATUS now
      <<"/", "x">>,                 \* /foo
      <<"/", "p", "x">>,            \* /pingfoo
      <<"/", " ", "p">>,            \* / ping
      <<" ", "/", "p">>,            \* " /ping"
      <<"/">>,
      <<"x">>,
      <<>> }

\* the batches get_pending_messages can build from one or two such messages
CmdBatches ==
    {PendingMessages(<<MessageUpdate(1, u, t)>>) : u \in Users, t \in CmdTexts}
    \cup {PendingMessages(<<MessageUpdate(1, u, t), MessageUpdate(2, v, w)>>) :
            u \in Users, v \in Users, t \in {<<"x">>, <<"/", "x">>}, w \in CmdTexts}

CmdInit ==
    /\ Boot("unit", NoFile, FALSE)
    /\ max_length = MAX_LENGTH
    /\ add_timestamp = FALSE
    /\ LockHeld
    /\ whitelist = {}
    /\ blacklist = {"bob"}
    /\ hist = [op |-> "init"]

\* messages = get_pending_messages(mark_as_read=False) returned a batch
CmdStart ==
    /\ pc = "unit"
    /\ batch' \in CmdBatches
    /\ pre' = NoPre
    /\ pc' = "prehook"
    /\ UNCHANGED <<serverVars, tgVars, preVars, clock, sessVars, session_id,
                   result, post, sends, acked, ret, histVars,
                   cliVars, postVars, lockVars>>

\* the cycle goes on from the branch (quick reply, or the agent)
CmdReturn ==
    /\ pc \in {"create", "reply"}
    /\ pc' = "unit"
    /\ UNCHANGED <<serverVars, tgVars, preVars, clock, sessVars, batch, pre,
                   session_id, result, post, sends, acked, ret, histVars,
                   cliVars, postVars, lockVars>>

CmdNext == Tick \/ CmdStart \/ RunPreHook \/ CmdReturn
SpecCmd == CmdInit /\ [][CmdNext]_vars

(***************************************************************************)
(* process_messages step by step: _call_claude_cli starts the child, starts *)
(* the monitor thread, waits in communicate(timeout), and on a timeout      *)
(* kills the child and drains its pipes.  The child and the monitor thread  *)
(* run concurrently with the caller.                                        *)
(***************************************************************************)
RunnerInit ==
    /\ Boot("unit", NoFile, TRUE)
    /\ max_length = MAX_LENGTH
    /\ add_timestamp = FALSE
    /\ LockHeld
    /\ whitelist = {}
    /\ blacklist = {}
    /\ hist = [op |-> "init"]

\* _process_messages_with_claude hands a batch to process_messages
RunnerStart ==
    /\ pc = "unit"
    /\ batch' = PendingMessages(<<MessageUpdate(1, CHOOSE u \in Users : u.username = "alice", Hi)>>)
    /\ session_id' = None
    /\ result' = NoResult
    /\ stdout' = <<>>
    /\ hist' = [op |-> "start", started |-> runs]
    /\ pc' = "create"
    /\ UNCHANGED <<serverVars, tgVars, preVars, clock, sessVars, pre, post, sends,
                   acked, ret, runs, children, monitors, is_running, prev_acked,
                   prev_handed, own_window, postVars, lockVars>>

\* subprocess.Popen(cmd, ...): the child starts, or Popen raises and the outer
\* except builds the failed result
CliPopen ==
    /\ pc = "run"
    /\ \/ /\ runs < MaxRuns
          /\ runs' = runs + 1
          /\ children' = children \cup {runs + 1}
          /\ stdout' = <<>>
          /\ result' = result
          /\ pc' = "monitor"
       \/ /\ result' = CliResult("spawn", <<>>)
          /\ pc' = "cleanup"
          /\ UNCHANGED <<runs, children, stdout, postVars, lockVars>>
    /\ UNCHANGED <<serverVars, tgVars, preVars, clock, sessVars, batch, pre,
                   session_id, post, sends, acked, ret, monitors, is_running,
                   histVars, postVars, lockVars>>

\* is_running = True; monitor_thread.start()
CliStartMonitor ==
    /\ pc = "monitor"
    /\ is_running' = is_running \cup {runs}
    /\ monitors' = monitors \cup {runs}
    /\ pc' = "wait"
    /\ UNCHANGED <<serverVars, tgVars, preVars, clock, sessVars, batch, pre,
                   session_id, result, post, sends, acked, ret, runs, children,
                   stdout, histVars, postVars, lockVars>>

\* the current child writes its output to the pipe, and perhaps a *.log file
\* into its session directory
ChildWrite ==
    /\ pc \in {"monitor", "wait", "kill"}
    /\ runs \in children
    /\ stdout = <<>>
    /\ \E out \in AgentOutputs \ {<<>>}, wrote_log \in BOOLEAN :
          /\ stdout' = out
          /\ logfiles' = IF wrote_log /\ session_id \in dirs
                         THEN logfiles \cup {session_id} ELSE logfiles
    /\ UNCHANGED <<serverVars, tgVars, preVars, clock, active_sessions, dirs,
                   archive_dir, archived, created_at, fs_faults, cycleVars, runs, children,
                   monitors, is_running, histVars, postVars, lockVars>>

\* (a slip: the timeout branch does not kill the child)
CliKill_Skip ==
    /\ pc = "kill"
    /\ pc' = "drain"
    /\ UNCHANGED <<serverVars, tgVars, preVars, clock, sessVars, batch, pre,
                   session_id, result, post, sends, acked, ret, cliVars, histVars,
                   postVars, lockVars>>

\* stdout, stderr = process.communicate(timeout=timeout): the child exits with
\* code 0 or 1, or the timeout expires, or communicate raises something else
\* and the outer except builds the failed result
CliCommunicate ==
    /\ pc = "wait"
    /\ \/ \E how \in {"exit0", "exit1"} :
             /\ runs \in children
             /\ children' = children \ {runs}
             /\ is_running' = is_running \ {runs}
             /\ result' = CliResult(how, stdout)
             /\ hist' = [op |-> "communicate", how |-> "exit", started |-> hist.started]
             /\ pc' = "cleanup"
       \/ /\ is_running' = is_running \ {runs}
          /\ hist' = [op |-> "communicate", how |-> "timeout", started |-> hist.started]
          /\ pc' = "kill"
          /\ UNCHANGED <<children, result, postVars, lockVars>>
       \/ /\ result' = CliResult("spawn", <<>>)
          /\ hist' = [op |-> "communicate", how |-> "error", started |-> hist.started]
          /\ pc' = "cleanup"
          /\ UNCHANGED <<children, is_running, postVars, lockVars>>
    /\ UNCHANGED <<serverVars, tgVars, preVars, clock, sessVars, batch, pre,
                   session_id, post, sends, acked, ret, runs, monitors, stdout,
                   prev_acked, prev_handed, own_window, postVars, lockVars>>

\* process.kill()
CliKill ==
    /\ pc = "kill"
    /\ children' = children \ {runs}
    /\ pc' = "drain"
    /\ UNCHANGED <<serverVars, tgVars, preVars, clock, sessVars, batch, pre,
                   session_id, result, post, sends, acked, ret, runs, monitors,
                   is_running, stdout, histVars, postVars, lockVars>>

\* stdout, stderr = process.communicate(), and the result of the timeout branch
CliDrain ==
    /\ pc = "drain"
    /\ result' = CliResult("timeout", stdout)
    /\ pc' = "cleanup"
    /\ UNCHANGED <<serverVars, tgVars, preVars, clock, sessVars, batch, pre,
                   session_id, post, sends, acked, ret, cliVars, histVars,
                   postVars, lockVars>>

\* monitor_progress of invocation k: 'while is_running' finds the flag False
\* and the thread ends (while the flag is True it only sleeps and logs)
MonitorExit(k) ==
    /\ k \in monitors
    /\ k \notin is_running
    /\ monitors' = monitors \ {k}
    /\ UNCHANGED <<serverVars, tgVars, preVars, clock, sessVars, cycleVars, runs,
                   children, is_running, stdout, histVars, postVars, lockVars>>

\* a child nobody waits for any more ends by itself
OrphanExit ==
    /\ \E k \in children :
          /\ k # runs \/ pc \notin {"monitor", "wait", "kill", "drain"}
          /\ children' = children \ {k}
    /\ UNCHANGED <<serverVars, tgVars, preVars, clock, sessVars, cycleVars, runs,
                   monitors, is_running, stdout, histVars, postVars, lockVars>>

RunnerNext ==
    \/ RunnerStart
    \/ ProcessCreate
    \/ CliPopen
    \/ CliStartMonitor
    \/ ChildWrite
    \/ CliCommunicate
    \/ CliKill
    \/ CliDrain
    \/ \E k \in 1..MaxRuns : MonitorExit(k)
    \/ OrphanExit
    \/ ProcessCleanup
    \/ ProcReturn
SpecRunner == RunnerInit /\ [][RunnerNext]_vars

\* the caller goes on working, and every started thread is scheduled again
\* and again
LiveRunner ==
    /\ RunnerInit /\ [][RunnerNext]_vars
    /\ WF_vars(RunnerNext)
    /\ \A k \in 1..MaxRuns : WF_vars(MonitorExit(k))

(***************************************************************************)
(* The extractor called directly: _extract_reply_content on a reply        *)
(* wrapped between the two literals inside noise, and _smart_extract on    *)
(* any short output, applied a second time to what it returned.            *)
(***************************************************************************)
\* every text over alphabet A of at most n tokens
TextsUpTo(A, n) == UNION {[1..k -> A] : k \in 0..n}

\* the tokens of a reply (a reply is any text of at most MaxReply of them);
\* "=" "E" is a reply that ends like the end literal
ReplyTokens == {"=", "S", "E", "x", " ", "\n"}
\* what the agent may print around the marked block
NoiseTexts ==
    { <<>>, <<"x", "\n">>, <<"\n", "x">>, <<"=">>, <<"=", "S">>, <<"E", "=">>,
      REPLY_START, REPLY_END,
      REPLY_START \o <<"x">> \o REPLY_END }
\* the tokens of an output without an end literal (so without a marker
\* pair), any text of at most MaxOutput of them, for the heuristic
PlainTokens == {"x", " ", "\n", "T", "K", "=", "S"}

ExtractInit ==
    /\ Boot("unit", NoFile, FALSE)
    /\ max_length = MAX_LENGTH
    /\ add_timestamp = FALSE
    /\ LockHeld
    /\ whitelist = {}
    /\ blacklist = {}
    /\ \/ \E b \in NoiseTexts, a \in NoiseTexts, k \in 0..MaxReply :
              \E r \in [1..k -> ReplyTokens] :
                 hist = [op |-> "wrap_in", before |-> b, reply |-> r, after |-> a]
       \/ \E k \in 0..MaxOutput :
              \E o \in [1..k -> PlainTokens] :
                 hist = [op |-> "smart_in", output |-> o]

\* _extract_reply_content(before + START + reply + END + after)
WrapCall ==
    /\ pc = "unit"
    /\ hist.op = "wrap_in"
    /\ hist' = [op |-> "wrap", before |-> hist.before, reply |-> hist.reply,
                after |-> hist.after,
                got |-> ExtractReplyContent(
                           hist.before \o REPLY_START \o hist.reply
                           \o REPLY_END \o hist.after)]
    /\ UNCHANGED <<serverVars, tgVars, preVars, clock, sessVars, cycleVars,
                   prev_acked, prev_handed, own_window, cliVars, postVars,
                   lockVars>>

\* t = _smart_extract(output), then _smart_extract(t) when t is a text; and
\* _extract_reply_content(output), which falls through to the heuristic
SmartCall ==
    /\ pc = "unit"
    /\ hist.op = "smart_in"
    /\ LET got == SmartExtract(hist.output)
       IN hist' = [op |-> "smart", output |-> hist.output, got |-> got,
                   again |-> IF got.some THEN SmartExtract(got.text) ELSE Absent,
                   via |-> ExtractReplyContent(hist.output)]
    /\ UNCHANGED <<serverVars, tgVars, preVars, clock, sessVars, cycleVars,
                   prev_acked, prev_handed, own_window, cliVars, postVars,
                   lockVars>>

ExtractNext == WrapCall \/ SmartCall
SpecExtract == ExtractInit /\ [][ExtractNext]_vars

(***************************************************************************)
(* PostHook.process called directly under several configurations, on an    *)
(* output whose marked block holds a reply of any length up to MaxText:    *)
(* short replies of every shape, long replies without a boundary, and long *)
(* replies with one sentence end or line break at any place.               *)
(***************************************************************************)
\* the values of config 'max_length' of the direct calls: below the reserved
\* 50, just above it, and two values large enough for the boundary search
PostLengths == {5, TRUNCATE_RESERVE + 10, MaxLength - 1, MaxLength}

\* a tokens "x", then token c, then b tokens "x"
Body(a, c, b) == [i \in 1..(a + 1 + b) |-> IF i = a + 1 THEN c ELSE "x"]

PostReplies ==
    TextsUpTo({"x", " ", "\n", "."}, MaxReply)
    \cup {[i \in 1..n |-> "x"] : n \in 0..MaxText}
    \cup {Body(a, c, n - 1 - a) :
             n \in (MaxText - 3)..MaxText, a \in 0..(MaxText - 1), c \in {".", "\n"}}

PostInit ==
    /\ Boot("unit", NoFile, FALSE)
    /\ max_length \in PostLengths
    /\ add_timestamp \in BOOLEAN
    /\ LockHeld
    /\ whitelist = {}
    /\ blacklist = {}
    /\ hist \in {[op |-> "process_in", reply |-> r] : r \in PostReplies}

\* post_hook.process(noise + START + reply + END, messages)
PostCall ==
    /\ pc = "unit"
    /\ hist.op = "process_in"
    /\ LET output == <<"x", "\n">> \o REPLY_START \o hist.reply \o REPLY_END
           extracted == ExtractReplyContent(output)
       IN hist' = [op |-> "process", reply |-> hist.reply,
                   cleaned |-> CleanContent(extracted.text),
                   got |-> PostHookProcess(output)]
    /\ UNCHANGED <<serverVars, tgVars, preVars, clock, sessVars, cycleVars,
                   prev_acked, prev_handed, own_window, cliVars, postVars,
                   lockVars>>

PostNext == PostCall
SpecPost == PostInit /\ [][PostNext]_vars

(***************************************************************************)
(* SessionManager over several runs of the process: sessions are created,  *)
(* the clock advances by hours, the process stops and a new one constructs *)
(* its SessionManager over the same sessions root, and                     *)
(* cleanup_old_sessions sweeps.                                            *)
(***************************************************************************)
\* the points of the wall clock around one hour, in seconds
SweepTimes == {0, 1, HOUR, HOUR + 1}

\* the loop "for session_id in sessions_to_clean" under the faults fs
RECURSIVE SweepLoop(_, _, _)
SweepLoop(st, todo, fs) ==
    IF todo = {} THEN [st |-> st, cleaned_count |-> 0]
    ELSE LET sid == CHOOSE s \in todo : TRUE
             c == CleanupSession(st, sid, TRUE, fs[sid])
             rest == SweepLoop(c.st, todo \ {sid}, fs)
         IN [st |-> rest.st,
             cleaned_count |-> rest.cleaned_count + (IF c.ret THEN 1 ELSE 0)]

\* the sessions cleanup_old_sessions selects: age > timedelta(hours=max_age_hours)
SessionsToClean(st, max_age_hours) ==
    {s \in st.active : clock - st.created[s] > max_age_hours * HOUR}

SweepInit ==
    /\ Boot("unit", NoFile, FALSE)
    /\ max_length = MAX_LENGTH
    /\ add_timestamp = FALSE
    /\ LockHeld
    /\ whitelist = {}
    /\ blacklist = {}
    /\ hist = [op |-> "init"]

SweepTick ==
    /\ pc = "unit"
    /\ \E t \in SweepTimes : t > clock /\ clock' = t
    /\ UNCHANGED <<serverVars, tgVars, preVars, sessVars, cycleVars, histVars,
                   cliVars, postVars, lockVars>>

\* the process ends without cleanup and is started again: the new
\* SessionManager begins with no active session; the directories stay
Restart ==
    /\ pc = "unit"
    /\ active_sessions' = {}
    /\ hist' = [op |-> "restart"]
    /\ UNCHANGED <<serverVars, tgVars, preVars, clock, dirs, logfiles,
                   archive_dir, archived, created_at, fs_faults, cycleVars,
                   prev_acked, prev_handed, own_window, cliVars, postVars,
                   lockVars>>

\* session_manager.cleanup_old_sessions(max_age_hours)
SweepCall ==
    /\ pc = "unit"
    /\ \E max_age_hours \in 0..MaxAgeHours :
          LET todo == SessionsToClean(SessState, max_age_hours)
          IN \E fs \in [todo -> (IF fs_faults THEN CleanupFaults ELSE {"none"})] :
                LET r == SweepLoop(SessState, todo, fs)
                IN /\ active_sessions' = r.st.active
                   /\ dirs' = r.st.dirs
                   /\ logfiles' = r.st.logfiles
                   /\ archive_dir' = r.st.archive_dir
                   /\ archived' = r.st.archived
                   /\ created_at' = r.st.created
                   /\ hist' = [op |-> "sweep", max_age_hours |-> max_age_hours,
                               now |-> clock, before |-> SessState,
                               cleaned_count |-> r.cleaned_count]
    /\ UNCHANGED <<serverVars, tgVars, preVars, clock, fs_faults, cycleVars,
                   prev_acked, prev_handed, own_window, cliVars, postVars,
                   lockVars>>

SweepNext ==
    \/ ApiCreateSession
    \/ ApiWriteLog
    \/ SweepTick
    \/ Restart
    \/ SweepCall
SpecSweep == SweepInit /\ [][SweepNext]_vars

(***************************************************************************)
(* Two dispatcher processes started on the same LOCK_FILE: acquire_lock    *)
(* step by step (each file operation is one step), the loop of run(), and  *)
(* the ways a process ends.  A lock file of a process that ended earlier   *)
(* may be present from the start.                                          *)
(***************************************************************************)
\* the process is running: psutil.pid_exists(pid) for one of the two
Alive(p) == lock_pc[p] \notin {"off", "refused", "released", "killed"}
PidExists(pid) == pid \in Procs /\ Alive(pid)

LockInit ==
    /\ Boot("unit", NoFile, FALSE)
    /\ max_length = MAX_LENGTH
    /\ add_timestamp = FALSE
    /\ whitelist = {}
    /\ blacklist = {}
    /\ lock_file \in {None, DeadPid}
    /\ lock_pc = [p \in Procs |-> "off"]
    /\ has_psutil \in BOOLEAN
    /\ hist = [op |-> "init"]

\* main(): the process is started and run() calls acquire_lock
LockStart(p) ==
    /\ lock_pc[p] = "off"
    /\ lock_pc' = [lock_pc EXCEPT ![p] = "exists"]
    /\ UNCHANGED <<serverVars, tgVars, preVars, clock, sessVars, cycleVars,
                   cliVars, postVars, lock_file, has_psutil, histVars>>

\* if LOCK_FILE.exists():
LockExists(p) ==
    /\ lock_pc[p] = "exists"
    /\ lock_pc' = [lock_pc EXCEPT ![p] = IF lock_file # None THEN "read" ELSE "open"]
    /\ UNCHANGED <<serverVars, tgVars, preVars, clock, sessVars, cycleVars,
                   cliVars, postVars, lock_file, has_psutil, histVars>>

\* import psutil; old_pid = int(f.read().strip()); psutil.pid_exists(old_pid):
\* return False without psutil, when the file is gone or empty by now (open or
\* int raises, the outer except returns False), and when the pid is running
LockRead(p) ==
    /\ lock_pc[p] = "read"
    /\ lock_pc' = [lock_pc EXCEPT ![p] =
                      IF ~has_psutil \/ lock_file \in {None, ""} \/ PidExists(lock_file)
                      THEN "refused" ELSE "unlink"]
    /\ UNCHANGED <<serverVars, tgVars, preVars, clock, sessVars, cycleVars,
                   cliVars, postVars, lock_file, has_psutil, histVars>>

\* LOCK_FILE.unlink(); FileNotFoundError when the file is gone by now
LockUnlink(p) ==
    /\ lock_pc[p] = "unlink"
    /\ lock_file' = None
    /\ lock_pc' = [lock_pc EXCEPT ![p] = IF lock_file = None THEN "refused" ELSE "open"]
    /\ UNCHANGED <<serverVars, tgVars, preVars, clock, sessVars, cycleVars,
                   cliVars, postVars, has_psutil, histVars>>

\* open(LOCK_FILE, 'w'): the file is created or truncated
LockOpen(p) ==
    /\ lock_pc[p] = "open"
    /\ lock_file' = ""
    /\ lock_pc' = [lock_pc EXCEPT ![p] = "write"]
    /\ UNCHANGED <<serverVars, tgVars, preVars, clock, sessVars, cycleVars,
                   cliVars, postVars, has_psutil, histVars>>

\* f.write(str(os.getpid())), the file is closed and acquire_lock returns True:
\* run() enters its loop
LockWrite(p) ==
    /\ lock_pc[p] = "write"
    /\ lock_file' = p
    /\ lock_pc' = [lock_pc EXCEPT ![p] = "running"]
    /\ UNCHANGED <<serverVars, tgVars, preVars, clock, sessVars, cycleVars,
                   cliVars, postVars, has_psutil, histVars>>

\* KeyboardInterrupt in the loop: release_lock unlinks LOCK_FILE if it exists
LockRelease(p) ==
    /\ lock_pc[p] = "running"
    /\ lock_file' = None
    /\ lock_pc' = [lock_pc EXCEPT ![p] = "released"]
    /\ UNCHANGED <<serverVars, tgVars, preVars, clock, sessVars, cycleVars,
                   cliVars, postVars, has_psutil, histVars>>

\* the process is killed; nothing is released
LockKill(p) ==
    /\ Alive(p)
    /\ lock_pc' = [lock_pc EXCEPT ![p] = "killed"]
    /\ UNCHANGED <<serverVars, tgVars, preVars, clock, sessVars, cycleVars,
                   cliVars, postVars, lock_file, has_psutil, histVars>>

LockNext ==
    \E p \in Procs :
        \/ LockStart(p)
        \/ LockExists(p)
        \/ LockRead(p)
        \/ LockUnlink(p)
        \/ LockOpen(p)
        \/ LockWrite(p)
        \/ LockRelease(p)
        \/ LockKill(p)
SpecLock == LockInit /\ [][LockNext]_vars

(***************************************************************************)
(* The claims.                                                             *)
(***************************************************************************)
\* C1: when check_and_process_messages returns from a cycle that fetched a
\* non-empty batch, acknowledge_messages has been called with all update_ids
\* of that batch, whatever path the cycle took.
C1_AckOnEveryPath ==
    (pc = "sleep" /\ batch # <<>>) =>
        (acked.called /\ acked.ids = UpdateIds(batch))
\* a cycle whose agent timed out has returned, and it has acknowledged
C1_Witness ==
    /\ pc = "sleep" /\ batch # <<>>
    /\ pre.cont /\ result.error = "timeout"
    /\ acked.called

\* C2: whenever check_new_messages has reported pending updates, the watermark
\* eventually reaches the highest pending update_id.
C2_EventuallyAdvanced ==
    \A u \in 1..MaxUpdates :
        (pc = "fetch" /\ updates # <<>> /\ updates[Len(updates)].update_id = u)
            ~> (last_update_id >= u)

\* C3: after every acknowledge_messages call the watermark has not decreased
\* and equals the maximum of its initial value and every id ever supplied.
C3_WatermarkIsMaxSupplied ==
    hist.op = "ack" =>
        (last_update_id >= hist.before /\ last_update_id = hist.max_supplied)

\* C4: no message at or below an update_id whose cycle reached its
\* acknowledgment step is fetched again, and no message is handed to the agent
\* in two cycles.
C4_AtMostOnce ==
    /\ \A i \in 1..Len(batch) : batch[i].update_id > prev_acked
    /\ (pc = "cleanup" /\ Handed) =>
           \A i \in 1..Len(batch) : batch[i].update_id > prev_handed

\* C5: when process_messages has returned, the directory of the session it
\* created no longer exists and the session is no longer active (the runs in
\* which the operating system refused the deletion itself are left aside).
C5_SessionGone ==
    (pc = "post" /\ session_id # None /\ ~(hist.rmtree /\ ~hist.ret)) =>
        (session_id \notin dirs /\ session_id \notin active_sessions)

\* C6: cleanup_session with keep_logs of a known session whose directory exists
\* always calls the deletion, also when archiving fails; a failed deletion makes
\* it return false.
C6_AlwaysAttemptsDeletion ==
    (hist.op = "cleanup" /\ hist.keep_logs /\ hist.sid \in hist.before.active
        /\ hist.sid \in hist.before.dirs) =>
        (hist.rmtree /\ (hist.fault = "rmtree" => ~hist.ret))

\* C7: cleanup_session of a session that is not active (already cleaned, or
\* never created) returns false and changes neither active_sessions nor the
\* file system.
C7_CleanupIdempotent ==
    (hist.op = "cleanup" /\ hist.sid \notin hist.before.active) =>
        (~hist.ret /\ hist.after = hist.before)
\* cleanup_session is called for a session that was cleaned before
C7_Witness ==
    /\ hist.op = "cleanup"
    /\ hist.sid \notin hist.before.active
    /\ hist.sid \in hist.before.archived
    /\ ~hist.ret

\* C8: a cycle in which PreHook.process returned continue = false has sent the
\* immediate reply to the chat of every message of the batch, has created no
\* session and run no agent, has acknowledged the batch, and the watermark has
\* reached the batch.
C8_InterceptedCycle ==
    (pc = "sleep" /\ batch # <<>> /\ ~pre.cont) =>
        /\ Len(sends) = Len(batch)
        /\ \A i \in 1..Len(batch) :
              sends[i].chat_id = batch[i].chat_id /\ sends[i].text = pre.reply
        /\ session_id = None /\ result = NoResult
        /\ acked.called /\ acked.ids = UpdateIds(batch)
        /\ last_update_id >= SeqMax(UpdateIds(batch))

C10_PerSenderWindow ==
    (hist.op = "gate" /\ hist.last.verdict = "rate") =>
        Len(own_window[hist.last.username]) >= rate_limit

\* C11: with a non-empty allow-list a sender is accepted exactly when the
\* allow-list names it, whatever the deny-list says; with an empty allow-list a
\* sender is accepted exactly when the deny-list does not name it.
C11_AllowListFirst ==
    hist.op = "auth" =>
        LET allowed == hist.user_id \in whitelist \/ hist.username \in whitelist
            denied == hist.user_id \in blacklist \/ hist.username \in blacklist
        IN hist.ok = (IF whitelist # {} THEN allowed ELSE ~denied)

\* the first whitespace-delimited token of a text that starts with '/'
C12_Word(t) ==
    LET blanks == {i \in 1..Len(t) : t[i] = " "}
        last == IF blanks = {} THEN Len(t)
                ELSE (CHOOSE i \in blanks : \A j \in blanks : i <= j) - 1
    IN SubSeq(t, 1, last)
\* the key under which a text is looked up: its first token as written, or
\* that token in lower case
C12_Key(t, fold) == IF fold THEN Lower(C12_Word(t)) ELSE C12_Word(t)
C12_IsCommand(t, fold) ==
    /\ t # <<>> /\ t[1] = "/"
    /\ C12_Key(t, fold) \in {<<"/", "h">>, <<"/", "s">>, <<"/", "p">>}
\* the statement of C12 once PreHook.process has returned and the dispatcher
\* has branched: among the messages that passed authorization and the rate
\* limit, exactly the table commands are intercepted, each with the reply of
\* its table entry; no batch handed to the agent holds a table command; a batch
\* whose messages all pass goes to the agent
C12_Statement(fold) ==
    pc \in {"create", "reply"} =>
        /\ \A i \in 1..Len(pre.seen) :
              LET t == batch[i].text
                  v == pre.seen[i].verdict
              IN /\ v \in {"command", "pass"} =>
                        ((v = "command") <=> C12_IsCommand(t, fold))
                 /\ v = "command" =>
                        /\ pc = "reply"
                        /\ C12_IsCommand(t, fold)
                        /\ pre.reply = CommandHandlers[C12_Key(t, fold)]
        /\ pc = "create" =>
              \A i \in 1..Len(batch) : ~C12_IsCommand(batch[i].text, fold)
        /\ (Len(pre.seen) = Len(batch)
              /\ \A i \in 1..Len(batch) : pre.seen[i].verdict = "pass") =>
              pc = "create"

Delivered ==
    /\ pc \in {"ack", "sleep"}
    /\ pre.cont /\ result.success
    /\ post.success /\ Truthy(post.reply)

\* C13: on the success path the reply is sent to every distinct chat of the
\* batch and to no other chat, and no chat receives it twice.
C13_OncePerChat ==
    Delivered =>
        /\ {sends[i].chat_id : i \in 1..Len(sends)}
              = {batch[i].chat_id : i \in 1..Len(batch)}
        /\ \A i \in 1..Len(sends) : sends[i].text = post.reply.text
        /\ \A i, j \in 1..Len(sends) :
              (i # j /\ sends[i].ok /\ sends[j].ok) =>
                  sends[i].chat_id # sends[j].chat_id

\* C14: when a send_message call of the delivery loop fails, the loop has
\* still attempted every other message's chat, the batch has been acknowledged
\* and the watermark has reached the batch.
C14_DeliveryFailureDoesNotBlock ==
    (Delivered /\ pc = "sleep" /\ \E i \in 1..Len(sends) : ~sends[i].ok) =>
        /\ Len(sends) = Len(batch)
        /\ \A i \in 1..Len(batch) : sends[i].chat_id = batch[i].chat_id
        /\ acked.called /\ acked.ids = UpdateIds(batch)
        /\ last_update_id >= SeqMax(UpdateIds(batch))

\* C15: in a cycle that went to the agent and in which the agent result has
\* success = false, or no reply could be extracted, send_message is not called.
C15_SilenceOnFailure ==
    (pc \in {"ack", "sleep"} /\ pre.cont /\ batch # <<>>
        /\ (~result.success \/ ~post.success \/ ~Truthy(post.reply))) =>
        sends = <<>>
\* the agent timed out with a complete marker block in its buffered output,
\* and the cycle has ended without a send
C15_Witness ==
    /\ pc = "sleep" /\ pre.cont /\ batch # <<>>
    /\ result.error = "timeout"
    /\ Truthy(ExtractReplyContent(result.output))
    /\ sends = <<>>

\* C16: when communicate(timeout) ran into the timeout and _call_claude_cli has
\* returned, the result has success = false, the buffered stdout as output, the
\* timeout as error and return code -1, and the child is no longer running.
C16_TimeoutHandling ==
    (pc = "cleanup" /\ hist.op = "communicate" /\ hist.how = "timeout") =>
        /\ result = [success |-> FALSE, output |-> stdout, error |-> "timeout",
                     returncode |-> 0 - 1]
        /\ runs \notin children
\* a child that had written output was killed on the timeout
C16_Witness ==
    /\ pc = "cleanup" /\ hist.op = "communicate" /\ hist.how = "timeout"
    /\ stdout # <<>> /\ result.output = stdout
    /\ runs \notin children

\* C17: a spawn error, a timeout or an exception inside process_messages comes
\* back as a result with success = false, and run() is always at a position
\* inside its while loop, from which the cycle goes on: no cycle ends the loop.
C17_LoopSurvives ==
    /\ result.error \in {"spawn", "timeout", "exception"} => ~result.success
    /\ pc \in LoopPositions
\* the cycle after a spawn error has been acknowledged and waits for the next poll
C17_Witness ==
    /\ pc = "sleep" /\ pre.cont /\ batch # <<>>
    /\ result.error = "spawn" /\ ~result.success
    /\ acked.called

\* C18: at every moment at most one session is active and at most one agent
\* child is running, and when _call_claude_cli has returned, the batch has its
\* one session and at most one child was started for it (exactly one unless
\* Popen itself failed).
C18_OneSessionOneChild ==
    /\ Cardinality(active_sessions) <= 1
    /\ Cardinality(children) <= 1
    /\ pc = "cleanup" =>
          /\ session_id \in active_sessions
          /\ runs <= hist.started + 1
          /\ hist.op = "communicate" => runs = hist.started + 1

\* C20: the monitor thread of every invocation that has ended (normally, on the
\* timeout, or on another exception of communicate) eventually terminates.
C20_MonitorTerminates ==
    \A k \in 1..MaxRuns :
        (runs = k /\ pc = "cleanup" /\ k \in monitors) ~> (k \notin monitors)

\* C19: while a fetched batch is in flight the loop keeps that batch and goes
\* to no poll or fetch; only from the sleep that follows the acknowledgment
\* does it go to the next poll.
C19_StrictlySequential ==
    [][batch # <<>> =>
          IF pc = "sleep"
          THEN acked.called /\ acked.ids = UpdateIds(batch) /\ pc' = "poll"
          ELSE batch' = batch /\ updates' = updates /\ pc' \notin {"poll", "fetch"}]_vars
\* a batch of two messages has been delivered and acknowledged, and the loop
\* is about to sleep before the next poll
C19_Witness ==
    /\ pc = "sleep" /\ Len(batch) = 2
    /\ Delivered /\ Len(sends) = 2
    /\ acked.called

\* C21 (as stated): for every reply that holds neither literal and any noise
\* around the marked block, extraction returns the reply, trimmed.
HasLiteral(t) == FindFrom(t, REPLY_START, 1) # 0 \/ FindFrom(t, REPLY_END, 1) # 0
C21_RoundTripAnyNoise ==
    (hist.op = "wrap" /\ ~HasLiteral(hist.reply)) =>
        hist.got = Present(Strip(hist.reply))

\* C21 (amended): when the start literal of the block is the first start
\* literal of the output and the end literal of the block is the first end
\* literal that begins after it, extraction returns the reply, trimmed.
C21_BlockIsFirst ==
    /\ FindFrom(hist.before \o REPLY_START, REPLY_START, 1) = Len(hist.before) + 1
    /\ FindFrom(hist.reply \o REPLY_END, REPLY_END, 1) = Len(hist.reply) + 1
C21_RoundTrip ==
    (hist.op = "wrap" /\ C21_BlockIsFirst) => hist.got = Present(Strip(hist.reply))
\* a reply with blanks around it, after noise and before a second marked block
C21_Witness ==
    /\ hist.op = "wrap" /\ C21_BlockIsFirst
    /\ hist.before = <<"x", "\n">>
    /\ hist.reply = <<"\n", "x", " ">>
    /\ hist.after = REPLY_START \o <<"x">> \o REPLY_END
    /\ hist.got = Present(<<"x">>)

\* C22: an output without a marker pair goes to the heuristic, whose reply is
\* the lines (trimmed) before the first summary opening line that are not
\* blank and match no skip pattern, joined by line breaks; nothing at or after
\* the first summary opening line is kept; with no such line the result is
\* None.
C22_Trimmed(output) ==
    LET lines == SplitLines(output) IN [i \in 1..Len(lines) |-> Strip(lines[i])]
C22_FirstOpening(ls) ==
    IF \E i \in 1..Len(ls) : OpensSummary(ls[i])
    THEN CHOOSE i \in 1..Len(ls) :
            OpensSummary(ls[i]) /\ \A j \in 1..(i - 1) : ~OpensSummary(ls[j])
    ELSE Len(ls) + 1
C22_Kept(ls) ==
    SelectSeq(SubSeq(ls, 1, C22_FirstOpening(ls) - 1),
              LAMBDA l : l # <<>> /\ ~MatchesSkip(l))
C22_HeuristicFallback ==
    hist.op = "smart" =>
        LET kept == C22_Kept(C22_Trimmed(hist.output))
        IN /\ hist.got = IF kept = <<>> THEN Absent ELSE Present(JoinLines(kept))
           /\ hist.via = hist.got
\* a kept line, a skipped line, the summary heading and a line after it
C22_Witness ==
    /\ hist.op = "smart"
    /\ hist.output = <<"x", "\n", "T", "\n", "x">>
    /\ hist.got = Present(<<"x">>)
    /\ hist.via = hist.got

\* C23: whenever _smart_extract returns a text, _smart_extract of that text
\* returns the same text.
C23_Idempotent ==
    (hist.op = "smart" /\ hist.got.some) => hist.again = hist.got
\* an indented line and a second line, a blank line between them
C23_Witness ==
    /\ hist.op = "smart"
    /\ hist.output = <<" ", "x", "\n", "\n", "x">>
    /\ hist.got = Present(<<"x", "\n", "x">>)
    /\ hist.again = hist.got

\* C24: under every configuration the reply returned by PostHook.process is
\* at most max_length long.
C24_WithinBudget ==
    (hist.op = "process" /\ hist.got.success) =>
        Len(hist.got.reply.text) <= max_length

\* the optional timestamp of step 5
C25_Stamp == IF add_timestamp THEN TimestampSuffix ELSE <<>>
\* the place (counted from 1) of the last sentence end or line break of t, 0
\* when t has none
C25_LastBoundary(t) ==
    IF \E i \in 1..Len(t) : t[i] \in {".", "\n"}
    THEN CHOOSE i \in 1..Len(t) :
            t[i] \in {".", "\n"} /\ \A j \in (i + 1)..Len(t) : t[j] \notin {".", "\n"}
    ELSE 0
\* C25: a cleaned reply longer than max_length (max_length at least 50) is cut
\* at max_length - 50; when the last sentence end or line break before the cut
\* lies no earlier than 80% of max_length the text ends just after that
\* boundary, otherwise at max_length - 50; the notice follows.
C25_CutPoint ==
    (hist.op = "process" /\ hist.got.success /\ Len(hist.cleaned) > max_length
       /\ max_length >= TRUNCATE_RESERVE) =>
        LET head == SubSeq(hist.cleaned, 1, max_length - TRUNCATE_RESERVE)
            b == C25_LastBoundary(head)
            kept == IF b # 0 /\ (b - 1) * 10 >= max_length * 8
                    THEN SubSeq(head, 1, b) ELSE head
        IN hist.got.reply.text = kept \o TruncationNotice \o C25_Stamp

\* C26: a cleaned reply of at most max_length characters is returned as it
\* is, followed by the timestamp when add_timestamp is set and by nothing
\* else.
C26_ShortUnchanged ==
    (hist.op = "process" /\ hist.got.success /\ Len(hist.cleaned) <= max_length) =>
        hist.got.reply.text = hist.cleaned \o C25_Stamp
\* a reply of exactly max_length characters with the timestamp configured, and
\* one without
C26_Witness ==
    /\ hist.op = "process" /\ hist.got.success
    /\ Len(hist.cleaned) = max_length /\ max_length = MaxLength
    /\ add_timestamp
    /\ hist.got.reply.text = hist.cleaned \o TimestampSuffix

\* C27: no step of a dispatcher cycle other than the acknowledgment changes
\* the in-memory last_update_id or the state file: not check_new_messages,
\* not get_pending_messages, not PreHook, the agent run, extraction or
\* delivery.
C27_OnlyAckMovesWatermark ==
    [][pc # "ack" => (last_update_id' = last_update_id /\ state_file' = state_file)]_vars
\* a cycle that fetched, ran the agent and delivered stands before its
\* acknowledgment with the watermark still below the batch
C27_Witness ==
    /\ pc = "ack" /\ batch # <<>> /\ pre.cont /\ result.success /\ sends # <<>>
    /\ last_update_id < SeqMax(UpdateIds(batch))
    /\ state_file = NoFile

\* C28: after acknowledge_messages(ids) the watermark is at least the largest
\* id supplied, and a second call with the same ids leaves the in-memory
\* watermark and the state file as the first call left them and returns what
\* the first call returned.
C28_AdvancesAndIdempotent ==
    hist.op = "ack" =>
        /\ hist.ids # <<>> => last_update_id >= SeqMax(hist.ids)
        /\ hist.retry =>
              /\ last_update_id = hist.before
              /\ state_file = hist.file_before
              /\ hist.ret = hist.first_ret

\* C29: cleanup_old_sessions(max_age) removes every session older than max_age
\* and keeps every younger one, and every session directory that an earlier
\* run of the process left behind and that is older than max_age is removed
\* as well.
C29_SweepRemovesOld ==
    hist.op = "sweep" =>
        LET b == hist.before
            limit == hist.max_age_hours * HOUR
            age(s) == hist.now - b.created[s]
        IN /\ \A s \in b.active :
                /\ age(s) > limit => (s \notin active_sessions /\ s \notin dirs)
                /\ age(s) < limit => (s \in active_sessions /\ s \in dirs)
           /\ \A s \in b.dirs \ b.active : age(s) > limit => s \notin dirs

\* C30: whatever the interleaving of the acquire_lock calls of two processes
\* on one lock file, with or without the lock file of a dead process, the two
\* never both hold the lock (acquire_lock returned true, run() in its loop)
\* at the same time.
C30_MutualExclusion ==
    \A p \in Procs, q \in Procs :
        (p # q /\ lock_pc[p] = "running") => lock_pc[q] # "running"
(***************************************************************************)
(* C31: session ids are never reused: create_session never returns the id  *)
(* of a session that is active or was created earlier, and never hands out *)
(* a working directory that already exists.  The clock of SpecProc stands  *)
(* still, so every call draws its id within the same second.               *)
(***************************************************************************)
C31_NeverReused ==
    (hist.op = "create" /\ hist.ok)
        => /\ hist.sid \notin hist.before.active
           /\ hist.before.created[hist.sid] = None
           /\ hist.sid \notin hist.before.dirs

(***************************************************************************)
(* C32: at the moment _call_claude_cli returns, on any path, the monitor   *)
(* thread it started has already terminated.  process_messages is at       *)
(* "cleanup" right after the return; hist.op = "communicate" tells that    *)
(* this invocation reached communicate, so it had started its monitor.     *)
(***************************************************************************)
C32_MonitorEndsBeforeReturn ==
    (pc = "cleanup" /\ hist.op = "communicate") => runs \notin monitors

(***************************************************************************)
(* C33: no message is dropped unexamined: every message acknowledged at    *)
(* the end of a cycle was itself rejected by authorization or rate         *)
(* limiting, or itself intercepted as a table command, or was part of the  *)
(* batch passed on to the agent (format_message_for_claude puts every      *)
(* message of that batch into the prompt).                                 *)
(***************************************************************************)
C33_Stopped(update_id) ==
    \E j \in 1..Len(pre.seen) :
       /\ pre.seen[j].update_id = update_id
       /\ pre.seen[j].verdict \in {"auth", "rate", "command"}

C33_NoMessageDropped ==
    (pc = "sleep" /\ acked.called)
        => \A i \in 1..Len(acked.ids) :
              C33_Stopped(acked.ids[i]) \/ pre.cont

(***************************************************************************)
(* C34: acknowledge_messages reports the truth about the watermark:        *)
(* whenever it returns true for a non-empty id list, the in-memory         *)
(* watermark and the one the state file yields are both at least the       *)
(* maximum id supplied, also when writing the state file fails.            *)
(***************************************************************************)
C34_TrueMeansAdvanced ==
    (hist.op = "ack" /\ hist.ret /\ hist.ids # <<>>)
        => /\ last_update_id >= SeqMax(hist.ids)
           /\ LoadLastUpdateId(state_file) >= SeqMax(hist.ids)

(***************************************************************************)
(* C35: the watermark survives a restart: the value loaded at startup is   *)
(* never lower than the highest value acknowledge_messages had made        *)
(* effective before the process stopped (the in-memory watermark only      *)
(* grows while a process runs, so that value is the one it held last),     *)
(* also when a write failed or stopped in the middle.                      *)
(***************************************************************************)
C35_SurvivesRestart ==
    hist.op = "load" => last_update_id >= hist.before

(***************************************************************************)
(* C36: after any sequence of _check_rate_limit calls the number of        *)
(* timestamps stored under a key never exceeds rate_limit; a rejected      *)
(* request adds no timestamp, and every accepted request adds exactly one  *)
(* (its own time of call; older entries are only ever dropped).            *)
(***************************************************************************)
\* how often timestamp ts occurs in window w
C36_Count(w, ts) == Cardinality({i \in 1..Len(w) : w[i] = ts})

C36_RateWindow ==
    /\ \A k \in RateKeys : Len(rate_limit_window[k]) <= rate_limit
    /\ hist.op = "rate" =>
          LET after == rate_limit_window[hist.key]
          IN /\ C36_Count(after, hist.now)
                   = C36_Count(hist.before, hist.now) + (IF hist.ok THEN 1 ELSE 0)
             /\ \A ts \in TimePoints \ {hist.now} :
                   C36_Count(after, ts) <= C36_Count(hist.before, ts)

\* a request was rejected at a full window after requests had been accepted
C36_Witness ==
    /\ hist.op = "rate"
    /\ ~hist.ok
    /\ Len(hist.before) = rate_limit
    /\ Len(rate_limit_window[hist.key]) = rate_limit

(***************************************************************************)
(* C37: the dispatcher never delivers an empty reply on the agent path:    *)
(* whenever PostHook.process returns success the reply text is non-empty,  *)
(* every reply sent after an agent run is non-empty, and a marker block    *)
(* whose content is empty or only whitespace is an extraction failure:     *)
(* nothing is sent and the batch is still acknowledged.                    *)
(***************************************************************************)
\* the output holds a marker pair with nothing but whitespace between
C37_BlankBlock(output) ==
    LET start == FindFrom(output, REPLY_START, 1)
        end == IF start = 0 THEN 0
               ELSE FindFrom(output, REPLY_END, start + Len(REPLY_START))
    IN /\ start # 0
       /\ end # 0
       /\ \A i \in (start + Len(REPLY_START))..(end - 1) : IsSpace(output[i])

C37_NoEmptyReply ==
    /\ post.success => (post.reply.some /\ post.reply.text # <<>>)
    /\ pre.cont => \A i \in 1..Len(sends) : sends[i].text # <<>>
    /\ (pc = "sleep" /\ pre.cont /\ result.success /\ C37_BlankBlock(result.output))
          => (~post.success /\ sends = <<>> /\ acked.called
              /\ acked.ids = UpdateIds(batch))

\* a cycle whose agent printed a marker pair around a blank has ended
C37_Witness ==
    /\ pc = "sleep" /\ pre.cont /\ result.success
    /\ C37_BlankBlock(result.output)
    /\ ~post.success /\ sends = <<>> /\ acked.called

\* the same for PostHook.process called directly on marked replies of every
\* shape, under every configuration of max_length and add_timestamp
C37_DirectCalls ==
    hist.op = "process" =>
        /\ hist.got.success => (hist.got.reply.some /\ hist.got.reply.text # <<>>)
        /\ (\A i \in 1..Len(hist.reply) : IsSpace(hist.reply[i])) => ~hist.got.success

====
